---- MODULE Spec2Model ----
(***************************************************************************)
(* Connection & power orchestrator of the dual-role ring.                  *)
(*                                                                         *)
(* Power manager: src/src/nrf54l15_power_mgr.c.                            *)
(* Link slots, duplicate-peer guard, scan/advertise scheduling:            *)
(* src/unnamed/part_000 (the revision of main.c that has the guard).       *)
(*                                                                         *)
(* Time is k_uptime_get_32() in milliseconds.  Within the horizons explored*)
(* here the uptime stays far below 2^32, so the unsigned subtractions of   *)
(* the code are plain subtractions of a later minus an earlier stamp.      *)
(***************************************************************************)
EXTENDS Integers, Sequences, FiniteSets, TLC

VARIABLES
    now,                 \* k_uptime_get_32()
    power_mgr,           \* struct power_manager power_mgr
    last_battery_update, \* static in update_power_mode
    drain_counter,       \* static in update_power_mode
    unified_work,        \* struct k_work_delayable unified_work
    conn_param,          \* per connection: last profile handed to bt_conn_le_param_update
    central_ring,        \* struct ring_connection central_ring
    peripheral_ring,     \* struct ring_connection peripheral_ring
    conns,               \* the connection objects of the Bluetooth stack
    scanning,            \* bt_scan_start() in effect
    advertising,         \* bt_le_adv_start() in effect
    adv_work,            \* struct k_work adv_work is submitted
    reconnect_work,      \* struct k_work_delayable reconnect_work
    rssi_work,           \* struct k_work_delayable rssi_work
    last_role_was_central, \* static in reconnect_work_handler
    rssi_counter,        \* static counter in get_real_rssi
    rssi_run,            \* where the work queue thread is inside rssi_work_handler
    pair,                \* two devices with empty slots: capabilities and policy of each
    attempts,            \* connections the stack has created so far
    samples,             \* samples added to the central filter since its reset
    quiet,               \* no connection attempt or link event since boot
    active_updates,      \* run of battery updates taken at the Active drain rate
    calls,               \* calls the application has made into the power manager
    led_manager,         \* struct led_manager, its mutex and its two work items
    user_led,            \* USER_LED as dk_set_led left it
    led_run,             \* where each thread is inside the LED functions
    last                 \* the handler that ran last, and what it saw on entry

\* ------------------------------------------------------------------------
\* Bounds of the model
\* ------------------------------------------------------------------------
\* Connection objects of the Bluetooth stack (struct bt_conn *), NULL is 0.
NumConns == 2
\* Uptime explored after the starting state, in ms.
MaxElapsed == 160000
\* Battery level of the drained starting state.
LowBattery == 16
\* Calls the application makes into the power manager in one run.
MaxCalls == 2
\* Peer addresses in range.
NumPeers == 2
\* Uptime explored by the link model, in ms.
MaxLinkTime == 5000
\* Connections the stack creates in one run, outgoing and incoming.
MaxAttempts == 2
\* Samples fed to a filter between two resets.
MaxSamples == 7

NULL == 0
Conns == 1..NumConns
Peers == 1..NumPeers

\* ------------------------------------------------------------------------
\* nrf54l15_power_mgr.h / nrf54l15_power_mgr.c: constants
\* ------------------------------------------------------------------------
POWER_MODE_ACTIVE == 0
POWER_MODE_IDLE == 1
POWER_MODE_SLEEP == 2
POWER_MODE_DEEP_SLEEP == 3
PowerModes == {POWER_MODE_ACTIVE, POWER_MODE_IDLE, POWER_MODE_SLEEP, POWER_MODE_DEEP_SLEEP}

RSSI_INTERVAL_ACTIVE == 3000
RSSI_INTERVAL_IDLE == 8000
RSSI_INTERVAL_SLEEP == 20000
RSSI_INTERVAL_DEEP_SLEEP == 0

IDLE_THRESHOLD_MS == 5000
SLEEP_THRESHOLD_MS == 30000
DEEP_SLEEP_THRESHOLD_MS == 120000

\* update_power_mode: "now - last_battery_update > 60000"
BATTERY_UPDATE_MS == 60000
\* update_power_mode: "battery_level <= 15"
ULTRA_LOW_BATTERY == 15
\* static struct power_manager power_mgr = { .battery_level = 100 }
BATTERY_FULL == 100

\* ------------------------------------------------------------------------
\* ring_types.h: struct rssi_filter, struct ring_connection
\* ------------------------------------------------------------------------
RSSI_HISTORY_SIZE == 5
DISTANCE_UNKNOWN == 0
DISTANCE_VERY_CLOSE == 1
DISTANCE_CLOSE == 2
DISTANCE_MEDIUM == 3
DISTANCE_FAR == 4
DISTANCE_VERY_FAR == 5

\* memset(filter, 0, sizeof(*filter))
rssi_filter_init ==
    [history |-> [i \in 0..(RSSI_HISTORY_SIZE - 1) |-> 0], index |-> 0, full |-> FALSE]

\* memset(&ring, 0, sizeof(ring)); rssi_filter_init(&ring.rssi_filter)
EmptyRing ==
    [conn |-> NULL, hrs_ready |-> FALSE, lbs_ready |-> FALSE,
     rssi_filter |-> rssi_filter_init, current_rssi |-> 0,
     distance |-> DISTANCE_UNKNOWN, last_rssi_update |-> 0,
     last_hr_value |-> 0, connection_time |-> 0]

\* ------------------------------------------------------------------------
\* Delayable work items (k_work_delayable)
\* ------------------------------------------------------------------------
NotScheduled == [armed |-> FALSE, deadline |-> 0]

\* The work queue thread is not inside rssi_work_handler; slot is the slot
\* the handler is at, reschedule the handler's local of that name.
NotRunning == [pc |-> "idle", slot |-> "none", reschedule |-> FALSE]

\* The system work queue runs one work item at a time.
wq_idle == rssi_run.pc = "idle"

\* The two devices of a pair
Devices == {1, 2}

\* What the reconnection policy of a device works on, as main() leaves it:
\* scan_start() has succeeded, adv_work is submitted, reconnect_work is idle.
BootDevice ==
    [scanning |-> TRUE, advertising |-> FALSE, adv_work |-> TRUE,
     reconnect_work |-> NotScheduled, last_role_was_central |-> FALSE]

\* k_work_schedule(): arms the item `delay` ms from now; an item that is
\* already scheduled keeps its deadline.
k_work_schedule(work, delay) ==
    IF work.armed THEN work ELSE [armed |-> TRUE, deadline |-> now + delay]

\* ------------------------------------------------------------------------
\* adjust_connection_params
\* ------------------------------------------------------------------------
NoProfile == [interval_min |-> 0, interval_max |-> 0, latency |-> 0, timeout |-> 0]

ProfileOf(mode) ==
    CASE mode = POWER_MODE_ACTIVE ->
            [interval_min |-> 6, interval_max |-> 12, latency |-> 0, timeout |-> 400]
      [] mode = POWER_MODE_IDLE ->
            [interval_min |-> 40, interval_max |-> 60, latency |-> 1, timeout |-> 600]
      [] mode = POWER_MODE_SLEEP ->
            [interval_min |-> 80, interval_max |-> 120, latency |-> 4, timeout |-> 800]
      [] mode = POWER_MODE_DEEP_SLEEP ->
            [interval_min |-> 240, interval_max |-> 320, latency |-> 10, timeout |-> 1200]

\* if (!conn) return -EINVAL; ... bt_conn_le_param_update(conn, &param)
adjust_connection_params(cp, conn, mode) ==
    IF conn = NULL THEN cp ELSE [cp EXCEPT ![conn] = ProfileOf(mode)]

\* ------------------------------------------------------------------------
\* set_power_mode
\* ------------------------------------------------------------------------
\* set_power_mode() that leaves mode_change_time where it was.
set_power_mode_unstamped(pm, new_mode) ==
    IF new_mode = pm.current_mode THEN pm
    ELSE LET duration == now - pm.mode_change_time IN
         [pm EXCEPT
            !.total_active_time =
                IF pm.current_mode = POWER_MODE_ACTIVE THEN @ + duration ELSE @,
            !.total_sleep_time =
                IF pm.current_mode = POWER_MODE_ACTIVE THEN @ ELSE @ + duration,
            !.current_mode = new_mode]

\* set_power_mode() crediting the elapsed time to the other accumulator.
set_power_mode_swapped(pm, new_mode) ==
    IF new_mode = pm.current_mode THEN pm
    ELSE LET duration == now - pm.mode_change_time IN
         [pm EXCEPT
            !.total_active_time =
                IF pm.current_mode = POWER_MODE_ACTIVE THEN @ ELSE @ + duration,
            !.total_sleep_time =
                IF pm.current_mode = POWER_MODE_ACTIVE THEN @ + duration ELSE @,
            !.current_mode = new_mode,
            !.mode_change_time = now]

\* The power_mgr fields after set_power_mode(new_mode).
set_power_mode(pm, new_mode) ==
    IF new_mode = pm.current_mode THEN pm
    ELSE LET duration == now - pm.mode_change_time IN
         [pm EXCEPT
            !.total_active_time =
                IF pm.current_mode = POWER_MODE_ACTIVE THEN @ + duration ELSE @,
            !.total_sleep_time =
                IF pm.current_mode = POWER_MODE_ACTIVE THEN @ ELSE @ + duration,
            !.current_mode = new_mode,
            !.mode_change_time = now]

\* bt_conn_le_param_update() returns an error for a connection that is not
\* established; adjust_connection_params returns it to its caller.
push_fails(conn) == conn # NULL /\ conns[conn].st # "connected"

\* set_power_mode() giving up after a failed push to the central slot's link.
set_power_mode_push_stop_on_error(pm, cp, new_mode) ==
    IF new_mode = pm.current_mode THEN cp
    ELSE IF push_fails(central_ring.conn)
    THEN adjust_connection_params(cp, central_ring.conn, new_mode)
    ELSE adjust_connection_params(
             adjust_connection_params(cp, central_ring.conn, new_mode),
             peripheral_ring.conn, new_mode)

\* set_power_mode() pushing to the central slot's link only.
set_power_mode_push_central_only(pm, cp, new_mode) ==
    IF new_mode = pm.current_mode THEN cp
    ELSE adjust_connection_params(cp, central_ring.conn, new_mode)

\* The parameter pushes of set_power_mode(new_mode).
set_power_mode_push(pm, cp, new_mode) ==
    IF new_mode = pm.current_mode THEN cp
    ELSE adjust_connection_params(
             adjust_connection_params(cp, central_ring.conn, new_mode),
             peripheral_ring.conn, new_mode)

\* ------------------------------------------------------------------------
\* on_user_activity / on_connection_established / on_connection_lost
\* ------------------------------------------------------------------------
\* on_user_activity() that leaves the mode alone once the latch is set.
user_activity_pm_latched(pm) ==
    LET stamped == [pm EXCEPT !.last_activity_time = now] IN
    IF stamped.current_mode # POWER_MODE_ACTIVE /\ ~stamped.ultra_low_power
    THEN set_power_mode(stamped, POWER_MODE_ACTIVE)
    ELSE stamped

\* on_user_activity() without its own mode test, on a set_power_mode without
\* the early return.
user_activity_pm_unguarded(pm) ==
    LET duration == now - pm.mode_change_time IN
    [pm EXCEPT
       !.last_activity_time = now,
       !.total_active_time =
           IF pm.current_mode = POWER_MODE_ACTIVE THEN @ + duration ELSE @,
       !.total_sleep_time =
           IF pm.current_mode = POWER_MODE_ACTIVE THEN @ ELSE @ + duration,
       !.current_mode = POWER_MODE_ACTIVE,
       !.mode_change_time = now]

user_activity_pm(pm) ==
    LET stamped == [pm EXCEPT !.last_activity_time = now] IN
    IF stamped.current_mode # POWER_MODE_ACTIVE
    THEN set_power_mode(stamped, POWER_MODE_ACTIVE)
    ELSE stamped

user_activity_push(pm, cp) ==
    IF pm.current_mode # POWER_MODE_ACTIVE
    THEN set_power_mode_push(pm, cp, POWER_MODE_ACTIVE)
    ELSE cp

led_vars == <<led_manager, user_led, led_run>>

pm_vars == <<power_mgr, last_battery_update, drain_counter, unified_work,
             conn_param, active_updates, calls>>

link_vars == <<central_ring, peripheral_ring, conns, scanning, advertising, adv_work,
               reconnect_work, rssi_work, last_role_was_central, rssi_counter,
               rssi_run, pair, led_vars>>
NoRun == [count |-> 0, base |-> 0]
batt_vars == <<last_battery_update, drain_counter>>

Seen(op, arg) ==
    [op |-> op, arg |-> arg, prev_mode |-> power_mgr.current_mode,
     prev_latch |-> power_mgr.ultra_low_power, updated |-> FALSE, rate |-> 0,
     err |-> 0, role |-> "none", dup |-> FALSE, result |-> 0]

\* ------------------------------------------------------------------------
\* The LED manager
\* ------------------------------------------------------------------------
LED_STATE_OFF == 0
LED_STATE_ON == 1
LED_STATE_FLASHING == 2
LED_STATE_BREATHING == 3
LED_FLASH_COUNT == 3

\* Threads that call led_set_state_locked: the Bluetooth thread (LBS and
\* connection callbacks) and hrs_notify_thread.
Callers == {"bt_rx", "hrs_notify_thread"}

\* The calls the application makes: (new_state, user_controlled).
LedCalls == {<<LED_STATE_ON, TRUE>>, <<LED_STATE_OFF, FALSE>>,
             <<LED_STATE_FLASHING, FALSE>>, <<LED_STATE_BREATHING, FALSE>>}

NotCalling == [pc |-> "idle", new_state |-> LED_STATE_OFF, user_controlled |-> FALSE]

\* main(): k_mutex_init, k_work_init_delayable twice, state = LED_STATE_OFF,
\* flash_active = 0, the rest of the struct zero; no thread inside the LED
\* functions. led_run.toggles counts the dk_set_led calls of the flashing branch
\* since the last request to flash; brightness and direction are the statics of
\* led_breathing_work_handler.
LedInit ==
    /\ led_manager = [mutex |-> "free", state |-> LED_STATE_OFF, user_controlled |-> FALSE,
                      flash_work |-> FALSE, breathing_work |-> FALSE,
                      flash_remaining |-> 0, flash_active |-> FALSE]
    /\ user_led = FALSE
    /\ led_run = [wq |-> "idle", caller |-> [c \in Callers |-> NotCalling],
                  toggles |-> 0, brightness |-> 0, direction |-> 1]

led_frame == <<now, pm_vars, central_ring, peripheral_ring, conns, scanning, advertising,
               adv_work, reconnect_work, rssi_work, last_role_was_central, rssi_counter,
               rssi_run, pair, attempts, samples, quiet>>

\* A thread calls led_set_state_locked(new_state, user_controlled).
led_set_state_locked(c, call) ==
    /\ led_run.caller[c].pc = "idle"
    /\ led_run' = [led_run EXCEPT !.caller[c] = [pc |-> "lock", new_state |-> call[1],
                                                 user_controlled |-> call[2]]]
    /\ last' = [Seen("led_set_state_locked", call[1]) EXCEPT !.role = c]
    /\ UNCHANGED <<led_frame, led_manager, user_led>>

\* k_mutex_lock(&led_manager.mutex, K_FOREVER) in led_set_state_locked
led_set_state_lock(c) ==
    /\ led_run.caller[c].pc = "lock"
    /\ led_manager.mutex = "free"
    /\ led_manager' = [led_manager EXCEPT !.mutex = c]
    /\ led_run' = [led_run EXCEPT !.caller[c].pc = "cancel"]
    /\ last' = [Seen("led_set_state_lock", NULL) EXCEPT !.role = c]
    /\ UNCHANGED <<led_frame, user_led>>

\* k_work_cancel_delayable on flash_work and on breathing_work: a pending item
\* is taken off its timer or queue, a handler that is running goes on.
led_set_state_cancel(c) ==
    /\ led_run.caller[c].pc = "cancel"
    /\ led_manager' = [led_manager EXCEPT !.flash_work = FALSE, !.breathing_work = FALSE]
    /\ led_run' = [led_run EXCEPT !.caller[c].pc = "set"]
    /\ last' = [Seen("led_set_state_cancel", NULL) EXCEPT !.role = c]
    /\ UNCHANGED <<led_frame, user_led>>

\* atomic_set(flash_active, 0), the two assignments, the switch and
\* k_mutex_unlock; led_set_state_locked returns.
led_set_state_apply(c) ==
    LET new_state == led_run.caller[c].new_state
        flashing == new_state = LED_STATE_FLASHING
    IN
    /\ led_run.caller[c].pc = "set"
    /\ led_manager' =
          [led_manager EXCEPT
              !.mutex = "free",
              !.state = new_state,
              !.user_controlled = led_run.caller[c].user_controlled,
              !.flash_remaining = IF flashing THEN LED_FLASH_COUNT ELSE @,
              !.flash_active = flashing,
              !.flash_work = IF flashing THEN TRUE ELSE @,
              !.breathing_work = IF new_state = LED_STATE_BREATHING THEN TRUE ELSE @]
    /\ user_led' = IF new_state = LED_STATE_OFF THEN FALSE
                   ELSE IF new_state = LED_STATE_ON THEN TRUE
                   ELSE user_led
    /\ led_run' = [led_run EXCEPT !.caller[c] = NotCalling,
                                  !.toggles = IF flashing THEN 0 ELSE @]
    /\ last' = [Seen("led_set_state_apply", new_state) EXCEPT !.role = c]
    /\ UNCHANGED led_frame

\* The work queue thread takes flash_work off the queue and enters
\* led_flash_work_handler.
led_flash_work_begin ==
    /\ led_run.wq = "idle"
    /\ led_manager.flash_work
    /\ led_manager' = [led_manager EXCEPT !.flash_work = FALSE]
    /\ led_run' = [led_run EXCEPT !.wq = "check"]
    /\ last' = Seen("led_flash_work_begin", NULL)
    /\ UNCHANGED <<led_frame, user_led>>

\* if (!atomic_get(&led_manager.flash_active)) return;
led_flash_work_check ==
    /\ led_run.wq = "check"
    /\ led_run' = [led_run EXCEPT !.wq = IF led_manager.flash_active THEN "lock" ELSE "idle"]
    /\ last' = [Seen("led_flash_work_check", NULL) EXCEPT !.updated = led_manager.flash_active]
    /\ UNCHANGED <<led_frame, led_manager, user_led>>

\* k_mutex_lock(&led_manager.mutex, K_FOREVER) in led_flash_work_handler
led_flash_work_lock ==
    /\ led_run.wq = "lock"
    /\ led_manager.mutex = "free"
    /\ led_manager' = [led_manager EXCEPT !.mutex = "wq"]
    /\ led_run' = [led_run EXCEPT !.wq = "locked"]
    /\ last' = Seen("led_flash_work_lock", NULL)
    /\ UNCHANGED <<led_frame, user_led>>

\* The locked part of led_flash_work_handler and k_mutex_unlock: one more
\* toggle and k_work_schedule(flash_work, LED_FLASH_INTERVAL), or the end of the
\* sequence.
led_flash_work_handler ==
    LET toggle == led_manager.flash_remaining > 0
    IN
    /\ led_run.wq = "locked"
    /\ user_led' = IF toggle THEN (led_manager.flash_remaining % 2) = 1
                   ELSE led_manager.user_controlled
    /\ led_manager' =
          IF toggle
          THEN [led_manager EXCEPT !.mutex = "free", !.flash_remaining = @ - 1,
                                   !.flash_work = TRUE]
          ELSE [led_manager EXCEPT !.mutex = "free", !.flash_active = FALSE]
    /\ led_run' = [led_run EXCEPT !.wq = "idle",
                                  !.toggles = IF toggle THEN @ + 1 ELSE @]
    /\ last' = [Seen("led_flash_work_handler", NULL) EXCEPT !.updated = toggle]
    /\ UNCHANGED led_frame

\* led_breathing_work_handler, taken off the queue by the work queue thread
led_breathing_work_handler ==
    LET breathing == led_manager.state = LED_STATE_BREATHING
        stepped == led_run.brightness + led_run.direction * 25
        brightness == IF stepped >= 100 THEN 100 ELSE IF stepped <= 0 THEN 0 ELSE stepped
        direction == IF stepped >= 100 THEN -1 ELSE IF stepped <= 0 THEN 1
                     ELSE led_run.direction
    IN
    /\ led_run.wq = "idle"
    /\ led_manager.breathing_work
    /\ led_manager' = [led_manager EXCEPT !.breathing_work = breathing]
    /\ user_led' = IF breathing THEN brightness > 50 ELSE user_led
    /\ led_run' = IF breathing
                  THEN [led_run EXCEPT !.brightness = brightness, !.direction = direction]
                  ELSE led_run
    /\ last' = [Seen("led_breathing_work_handler", NULL) EXCEPT !.updated = breathing]
    /\ UNCHANGED led_frame

LedNext ==
    \/ \E c \in Callers, call \in LedCalls : led_set_state_locked(c, call)
    \/ \E c \in Callers : led_set_state_lock(c)
    \/ \E c \in Callers : led_set_state_cancel(c)
    \/ \E c \in Callers : led_set_state_apply(c)
    \/ led_flash_work_begin
    \/ led_flash_work_check
    \/ led_flash_work_lock
    \/ led_flash_work_handler
    \/ led_breathing_work_handler

on_user_activity ==
    /\ calls < MaxCalls
    /\ calls' = calls + 1
    /\ power_mgr' = user_activity_pm(power_mgr)
    /\ conn_param' = user_activity_push(power_mgr, conn_param)
    /\ last' = Seen("on_user_activity", NULL)
    /\ UNCHANGED <<now, batt_vars, unified_work, link_vars, attempts, samples, quiet, active_updates>>

\* on_connection_established(conn), for a connection that is established.
on_connection_established(conn) ==
    /\ conns[conn].st = "connected"
    /\ calls < MaxCalls
    /\ calls' = calls + 1
    /\ power_mgr' = user_activity_pm(power_mgr)
    /\ conn_param' = adjust_connection_params(
                         user_activity_push(power_mgr, conn_param),
                         conn, POWER_MODE_ACTIVE)
    /\ last' = Seen("on_connection_established", conn)
    /\ UNCHANGED <<now, batt_vars, unified_work, link_vars, attempts, samples, quiet, active_updates>>

on_connection_lost ==
    /\ calls < MaxCalls
    /\ calls' = calls + 1
    /\ power_mgr' = set_power_mode(power_mgr, POWER_MODE_SLEEP)
    /\ conn_param' = set_power_mode_push(power_mgr, conn_param, POWER_MODE_SLEEP)
    /\ last' = Seen("on_connection_lost", NULL)
    /\ UNCHANGED <<now, batt_vars, unified_work, link_vars, attempts, samples, quiet, active_updates>>

\* ------------------------------------------------------------------------
\* update_power_mode
\* ------------------------------------------------------------------------
\* The drain rates with Sleep draining like Idle.
drain_rate_sleep_drains(mode) ==
    CASE mode = POWER_MODE_ACTIVE -> 2
      [] mode = POWER_MODE_IDLE -> 1
      [] mode = POWER_MODE_SLEEP -> 1
      [] mode = POWER_MODE_DEEP_SLEEP -> 0

drain_rate(mode) ==
    CASE mode = POWER_MODE_ACTIVE -> 2
      [] mode = POWER_MODE_IDLE -> 1
      [] mode = POWER_MODE_SLEEP -> 0
      [] mode = POWER_MODE_DEEP_SLEEP -> 0

\* if (now - last_battery_update > 60000)
battery_due == now - last_battery_update > BATTERY_UPDATE_MS

\* drain_counter += drain_rate (uint8_t)
drained(mode) == (drain_counter + drain_rate(mode)) % 256

\* The decrement with its sign slipped.
battery_decrement_up(level) == IF level > 0 THEN level + 1 ELSE 0

\* battery_level = (battery_level > 0) ? battery_level - 1 : 0
battery_decrement(level) == IF level > 0 THEN level - 1 ELSE 0

\* The battery block decrementing only once the counter has reached 4.
battery_after_at_four(pm) ==
    IF battery_due /\ drained(pm.current_mode) >= 4
    THEN battery_decrement(pm.battery_level)
    ELSE pm.battery_level

\* battery_level after the battery block
battery_after(pm) ==
    IF battery_due /\ drained(pm.current_mode) >= 2
    THEN battery_decrement(pm.battery_level)
    ELSE pm.battery_level

\* The latch test with "<" for "<=".
enters_below_floor(pm) ==
    /\ battery_due
    /\ battery_after(pm) < ULTRA_LOW_BATTERY
    /\ ~pm.ultra_low_power

\* the branch at "battery_level <= 15 && !ultra_low_power"
enters_ultra_low_power(pm) ==
    /\ battery_due
    /\ battery_after(pm) <= ULTRA_LOW_BATTERY
    /\ ~pm.ultra_low_power

\* The ladder with ">=" for ">".
target_mode_nonstrict(idle_time) ==
    IF idle_time >= DEEP_SLEEP_THRESHOLD_MS THEN POWER_MODE_DEEP_SLEEP
    ELSE IF idle_time >= SLEEP_THRESHOLD_MS THEN POWER_MODE_SLEEP
    ELSE IF idle_time >= IDLE_THRESHOLD_MS THEN POWER_MODE_IDLE
    ELSE POWER_MODE_ACTIVE

\* the idle-time ladder
target_mode(idle_time) ==
    IF idle_time > DEEP_SLEEP_THRESHOLD_MS THEN POWER_MODE_DEEP_SLEEP
    ELSE IF idle_time > SLEEP_THRESHOLD_MS THEN POWER_MODE_SLEEP
    ELSE IF idle_time > IDLE_THRESHOLD_MS THEN POWER_MODE_IDLE
    ELSE POWER_MODE_ACTIVE

\* The mode update_power_mode asks set_power_mode for; the current mode when
\* it asks for none.
requested_mode(pm) ==
    IF enters_ultra_low_power(pm) THEN POWER_MODE_DEEP_SLEEP
    ELSE IF pm.ultra_low_power THEN pm.current_mode
    ELSE target_mode(now - pm.last_activity_time)

update_power_mode_pm(pm) ==
    LET batt == [pm EXCEPT !.battery_level = battery_after(pm),
                           !.ultra_low_power = @ \/ enters_ultra_low_power(pm)]
    IN set_power_mode(batt, requested_mode(pm))

get_rssi_update_interval(mode) ==
    CASE mode = POWER_MODE_ACTIVE -> RSSI_INTERVAL_ACTIVE
      [] mode = POWER_MODE_IDLE -> RSSI_INTERVAL_IDLE
      [] mode = POWER_MODE_SLEEP -> RSSI_INTERVAL_SLEEP
      [] mode = POWER_MODE_DEEP_SLEEP -> RSSI_INTERVAL_DEEP_SLEEP

\* The periodic handler re-arming with the interval of the mode it was
\* entered in.
unified_periodic_work_handler_entry_mode ==
    /\ unified_work.armed
    /\ now = unified_work.deadline
    /\ power_mgr' = update_power_mode_pm(power_mgr)
    /\ conn_param' = set_power_mode_push(power_mgr, conn_param, requested_mode(power_mgr))
    /\ drain_counter' = IF ~battery_due THEN drain_counter
                        ELSE IF drained(power_mgr.current_mode) >= 2 THEN 0
                        ELSE drained(power_mgr.current_mode)
    /\ last_battery_update' = IF battery_due THEN now ELSE last_battery_update
    /\ unified_work' =
          LET next_interval == get_rssi_update_interval(power_mgr.current_mode) IN
          IF next_interval > 0
          THEN k_work_schedule(NotScheduled, next_interval)
          ELSE NotScheduled
    /\ active_updates' =
          IF ~battery_due THEN active_updates
          ELSE IF drain_rate(power_mgr.current_mode) # 2 THEN NoRun
          ELSE [count |-> active_updates.count + 1,
                base |-> IF active_updates.count = 0 THEN power_mgr.battery_level
                         ELSE active_updates.base]
    /\ last' = [Seen("tick", NULL) EXCEPT
                   !.updated = battery_due,
                   !.rate = drain_rate(power_mgr.current_mode)]
    /\ UNCHANGED <<now, link_vars, attempts, samples, quiet, calls>>

\* unified_periodic_work_handler: update_power_mode(), then re-arm with the
\* interval of the mode now current; an interval of 0 is not re-armed.
\* rssi_update_internal() is declared for the main file and defined nowhere.
unified_periodic_work_handler ==
    /\ unified_work.armed
    /\ now = unified_work.deadline
    /\ power_mgr' = update_power_mode_pm(power_mgr)
    /\ conn_param' = set_power_mode_push(power_mgr, conn_param, requested_mode(power_mgr))
    /\ drain_counter' = IF ~battery_due THEN drain_counter
                        ELSE IF drained(power_mgr.current_mode) >= 2 THEN 0
                        ELSE drained(power_mgr.current_mode)
    /\ last_battery_update' = IF battery_due THEN now ELSE last_battery_update
    /\ unified_work' =
          LET next_interval == get_rssi_update_interval(power_mgr'.current_mode) IN
          IF next_interval > 0
          THEN k_work_schedule(NotScheduled, next_interval)
          ELSE NotScheduled
    /\ active_updates' =
          IF ~battery_due THEN active_updates
          ELSE IF drain_rate(power_mgr.current_mode) # 2 THEN NoRun
          ELSE [count |-> active_updates.count + 1,
                base |-> IF active_updates.count = 0 THEN power_mgr.battery_level
                         ELSE active_updates.base]
    /\ last' = [Seen("tick", NULL) EXCEPT
                   !.updated = battery_due,
                   !.rate = drain_rate(power_mgr.current_mode)]
    /\ UNCHANGED <<now, link_vars, attempts, samples, quiet, calls>>

\* ------------------------------------------------------------------------
\* estimate_distance (part_000)
\* ------------------------------------------------------------------------
RSSI_VERY_CLOSE_THRESHOLD == -35
RSSI_CLOSE_THRESHOLD == -55
RSSI_MEDIUM_THRESHOLD == -70
RSSI_FAR_THRESHOLD == -85

\* estimate_distance with the Medium threshold itself classified Far.
estimate_distance_strict(rssi) ==
    IF rssi >= RSSI_VERY_CLOSE_THRESHOLD THEN DISTANCE_VERY_CLOSE
    ELSE IF rssi >= RSSI_CLOSE_THRESHOLD THEN DISTANCE_CLOSE
    ELSE IF rssi > RSSI_MEDIUM_THRESHOLD THEN DISTANCE_MEDIUM
    ELSE IF rssi >= RSSI_FAR_THRESHOLD THEN DISTANCE_FAR
    ELSE DISTANCE_VERY_FAR

\* The classifier with the comparison against the Close threshold turned
\* round.
estimate_distance_flipped(rssi) ==
    IF rssi >= RSSI_VERY_CLOSE_THRESHOLD THEN DISTANCE_VERY_CLOSE
    ELSE IF rssi <= RSSI_CLOSE_THRESHOLD THEN DISTANCE_CLOSE
    ELSE IF rssi >= RSSI_MEDIUM_THRESHOLD THEN DISTANCE_MEDIUM
    ELSE IF rssi >= RSSI_FAR_THRESHOLD THEN DISTANCE_FAR
    ELSE DISTANCE_VERY_FAR

estimate_distance(rssi) ==
    IF rssi >= RSSI_VERY_CLOSE_THRESHOLD THEN DISTANCE_VERY_CLOSE
    ELSE IF rssi >= RSSI_CLOSE_THRESHOLD THEN DISTANCE_CLOSE
    ELSE IF rssi >= RSSI_MEDIUM_THRESHOLD THEN DISTANCE_MEDIUM
    ELSE IF rssi >= RSSI_FAR_THRESHOLD THEN DISTANCE_FAR
    ELSE DISTANCE_VERY_FAR

\* The slot as connected() fills it: conn, placeholder rssi and distance,
\* connection_time, filter reset.
populated(ring, conn, rssi) ==
    [ring EXCEPT !.conn = conn, !.current_rssi = rssi,
                 !.distance = estimate_distance(rssi),
                 !.connection_time = now,
                 !.rssi_filter = rssi_filter_init]

\* ------------------------------------------------------------------------
\* RSSI filter (part_000)
\* ------------------------------------------------------------------------
RSSI_UPDATE_INTERVAL == 3000

\* C integer division, truncating toward zero
TruncDiv(a, b) == IF a >= 0 THEN a \div b ELSE -((-a) \div b)

rssi_filter_add(filter, rssi) ==
    LET index == (filter.index + 1) % RSSI_HISTORY_SIZE IN
    [history |-> [filter.history EXCEPT ![filter.index] = rssi],
     index |-> index,
     full |-> filter.full \/ index = 0]

RECURSIVE SumHistory(_, _)
SumHistory(history, count) ==
    IF count = 0 THEN 0 ELSE history[count - 1] + SumHistory(history, count - 1)

\* The average with the quotient rounded down.
rssi_filter_get_average_floor(filter) ==
    IF ~filter.full /\ filter.index = 0 THEN -70
    ELSE LET count == IF filter.full THEN RSSI_HISTORY_SIZE ELSE filter.index IN
         SumHistory(filter.history, count) \div count

rssi_filter_get_average(filter) ==
    IF ~filter.full /\ filter.index = 0 THEN -70
    ELSE LET count == IF filter.full THEN RSSI_HISTORY_SIZE ELSE filter.index IN
         TruncDiv(SumHistory(filter.history, count), count)

\* get_real_rssi: base_rssi + (counter % 20) - 10, counter already incremented
get_real_rssi(counter) == -50 + (counter % 20) - 10

\* The slot's part of rssi_work_handler reporting a change of 3 already.
rssi_sample_at_three(ring, new_rssi) ==
    LET filter == rssi_filter_add(ring.rssi_filter, new_rssi)
        filtered_rssi == rssi_filter_get_average(filter)
        new_distance == estimate_distance(filtered_rssi)
        diff == filtered_rssi - ring.current_rssi
        report == new_distance # ring.distance \/ (IF diff < 0 THEN -diff ELSE diff) >= 3
    IN [ring EXCEPT !.rssi_filter = filter,
                    !.current_rssi = IF report THEN filtered_rssi ELSE @,
                    !.distance = IF report THEN new_distance ELSE @]

\* The slot's part of rssi_work_handler storing the reported average without
\* its classification.
rssi_sample_keeps_distance(ring, new_rssi) ==
    LET filter == rssi_filter_add(ring.rssi_filter, new_rssi)
        filtered_rssi == rssi_filter_get_average(filter)
        new_distance == estimate_distance(filtered_rssi)
        diff == filtered_rssi - ring.current_rssi
        report == new_distance # ring.distance \/ (IF diff < 0 THEN -diff ELSE diff) > 3
    IN [ring EXCEPT !.rssi_filter = filter,
                    !.current_rssi = IF report THEN filtered_rssi ELSE @]

\* One slot's part of rssi_work_handler, for the sample new_rssi.
rssi_sample(ring, new_rssi) ==
    LET filter == rssi_filter_add(ring.rssi_filter, new_rssi)
        filtered_rssi == rssi_filter_get_average(filter)
        new_distance == estimate_distance(filtered_rssi)
        diff == filtered_rssi - ring.current_rssi
        report == new_distance # ring.distance \/ (IF diff < 0 THEN -diff ELSE diff) > 3
    IN [ring EXCEPT !.rssi_filter = filter,
                    !.current_rssi = IF report THEN filtered_rssi ELSE @,
                    !.distance = IF report THEN new_distance ELSE @]

\* ------------------------------------------------------------------------
\* The Bluetooth stack as the application sees it
\* ------------------------------------------------------------------------
\* A connection object: st is "free", "connecting" (created by the scan module,
\* the connected callback still to come), "connected", "disconnecting"
\* (termination under way, the disconnected callback still to come) or
\* "released" (all callbacks delivered); refs counts the application's
\* references (bt_conn_ref less bt_conn_unref).
FreeConn == [st |-> "free", role |-> "none", peer |-> 0, refs |-> 0]

\* The object the stack takes from its pool for a new connection: the first
\* one that is unused, NULL when none is.
bt_conn_new ==
    LET unused == {c \in Conns : conns[c].st = "free" /\ conns[c].refs = 0} IN
    IF unused = {} THEN NULL
    ELSE CHOOSE c \in unused : \A d \in unused : c <= d

\* The peer of a new connection, up to renaming of addresses: one that a
\* connection object already names, or the first one that none names.
NewPeers ==
    LET known == {conns[c].peer : c \in Conns} \ {0}
        fresh == Peers \ known
    IN known \cup {p \in fresh : \A q \in fresh : p <= q}

bt_conn_ref(cs, conn) == [cs EXCEPT ![conn].refs = @ + 1]
bt_conn_unref(cs, conn) == [cs EXCEPT ![conn].refs = @ - 1]

\* bt_conn_get_info(conn, &info) == 0 && info.state == BT_CONN_STATE_CONNECTED
is_connected(conn) == conns[conn].st = "connected"

\* ------------------------------------------------------------------------
\* Scan and advertising management (part_000)
\* ------------------------------------------------------------------------
\* scan_start(): bt_scan_start() succeeds or fails; the scan is on afterwards
\* when it succeeded or was on already.
scan_start(ok) == scanning \/ ok

\* adv_work_handler: bt_le_adv_start() fails when advertising is already on, or
\* for a reason of the stack's own; a failure schedules reconnect_work in 5 s.
adv_work_handler(ok) ==
    /\ wq_idle
    /\ adv_work
    /\ adv_work' = FALSE
    /\ advertising' = (advertising \/ ok)
    /\ reconnect_work' = IF advertising \/ ~ok
                         THEN k_work_schedule(reconnect_work, 5000)
                         ELSE reconnect_work
    /\ last' = [Seen("adv_work_handler", NULL) EXCEPT
                   !.err = IF advertising \/ ~ok THEN 1 ELSE 0]
    /\ UNCHANGED <<now, pm_vars, samples, quiet, attempts, central_ring, peripheral_ring, conns, scanning,
                   rssi_work, last_role_was_central, rssi_counter, rssi_run, pair, led_vars>>

\* The handler starting the scan on every run.
reconnect_work_handler_scan_only(ok) ==
    /\ wq_idle
    /\ reconnect_work.armed
    /\ now = reconnect_work.deadline
    /\ scanning' = scan_start(ok)
    /\ adv_work' = adv_work
    /\ reconnect_work' = k_work_schedule(NotScheduled, 1500)
    /\ last_role_was_central' = TRUE
    /\ last' = [Seen("reconnect_work_handler", NULL) EXCEPT
                   !.role = "central",
                   !.err = IF scanning \/ ~ok THEN 1 ELSE 0]
    /\ UNCHANGED <<now, pm_vars, samples, quiet, attempts, central_ring, peripheral_ring,
                   conns, advertising, rssi_work, rssi_counter, rssi_run, pair, led_vars>>

\* The handler starting both capabilities on every run and leaving the timer
\* alone.
reconnect_work_handler_both(ok) ==
    /\ wq_idle
    /\ reconnect_work.armed
    /\ now = reconnect_work.deadline
    /\ scanning' = scan_start(ok)
    /\ adv_work' = TRUE
    /\ reconnect_work' = NotScheduled
    /\ last' = [Seen("reconnect_work_handler", NULL) EXCEPT
                   !.err = IF scanning \/ ~ok THEN 1 ELSE 0]
    /\ UNCHANGED <<now, pm_vars, samples, quiet, attempts, central_ring, peripheral_ring,
                   conns, advertising, rssi_work, last_role_was_central, rssi_counter, rssi_run, pair, led_vars>>

\* reconnect_work_handler: scan_start() or advertising_start() in turn, and
\* itself again in 1500 ms.
reconnect_work_handler(ok) ==
    /\ wq_idle
    /\ reconnect_work.armed
    /\ now = reconnect_work.deadline
    /\ scanning' = IF ~last_role_was_central THEN scan_start(ok) ELSE scanning
    /\ adv_work' = IF ~last_role_was_central THEN adv_work ELSE TRUE
    /\ reconnect_work' = k_work_schedule(NotScheduled, 1500)
    /\ last_role_was_central' = ~last_role_was_central
    /\ last' = [Seen("reconnect_work_handler", NULL) EXCEPT
                   !.role = IF ~last_role_was_central THEN "central" ELSE "peripheral",
                   !.err = IF ~last_role_was_central /\ (scanning \/ ~ok) THEN 1 ELSE 0]
    /\ UNCHANGED <<now, pm_vars, samples, quiet, attempts, central_ring, peripheral_ring, conns, advertising,
                   rssi_work, rssi_counter, rssi_run, pair, led_vars>>

\* The duplicate-peer test applied to outgoing connections only.
is_duplicate_central_only(role, peer) ==
    /\ role = "central"
    /\ peripheral_ring.conn # NULL
    /\ conns[peripheral_ring.conn].peer = peer

\* The duplicate-peer test of connected(): the other slot holds a connection
\* to the address of the new one.
is_duplicate(role, peer) ==
    \/ /\ role = "central"
       /\ peripheral_ring.conn # NULL
       /\ conns[peripheral_ring.conn].peer = peer
    \/ /\ role = "peripheral"
       /\ central_ring.conn # NULL
       /\ conns[central_ring.conn].peer = peer

\* connected() returning on an error without touching the central slot.
connected_handler_no_rollback(conn, conn_err, role, peer) ==
    LET failed == conn_err # 0
        rollback == FALSE
        dup == ~failed /\ is_duplicate(role, peer)
        accept == ~failed /\ ~dup
        entry == [conns EXCEPT ![conn] =
                     [st |-> IF failed THEN "released"
                             ELSE IF dup THEN "disconnecting" ELSE "connected",
                      role |-> role, peer |-> peer, refs |-> @.refs]]
    IN
    /\ conns' = IF rollback THEN bt_conn_unref(entry, conn)
                ELSE IF accept THEN bt_conn_ref(entry, conn)
                ELSE entry
    /\ central_ring' =
          IF rollback THEN EmptyRing
          ELSE IF accept /\ role = "central" THEN populated(central_ring, conn, -50)
          ELSE central_ring
    /\ peripheral_ring' =
          IF accept /\ role = "peripheral" THEN populated(peripheral_ring, conn, -45)
          ELSE peripheral_ring
    /\ advertising' = IF accept THEN FALSE ELSE advertising
    /\ scanning' = IF accept THEN FALSE ELSE scanning
    /\ reconnect_work' = IF rollback THEN k_work_schedule(reconnect_work, 2000)
                         ELSE reconnect_work
    /\ rssi_work' = IF accept THEN k_work_schedule(rssi_work, RSSI_UPDATE_INTERVAL)
                    ELSE rssi_work
    /\ last' = [Seen("connected", conn) EXCEPT !.err = conn_err, !.role = role, !.dup = dup]
    /\ attempts' = IF role = "peripheral" THEN attempts + 1 ELSE attempts
    /\ quiet' = FALSE
    /\ UNCHANGED <<now, pm_vars, samples, adv_work, last_role_was_central, rssi_counter, rssi_run, pair, led_vars>>

\* connected(conn, conn_err), for a connection of the given role and peer
\* address whose object is in state st when the callback returns to the stack.
connected_handler(conn, conn_err, role, peer) ==
    LET failed == conn_err # 0
        rollback == failed /\ conn = central_ring.conn
        dup == ~failed /\ is_duplicate(role, peer)
        accept == ~failed /\ ~dup
        entry == [conns EXCEPT ![conn] =
                     [st |-> IF failed THEN "released"
                             ELSE IF dup THEN "disconnecting" ELSE "connected",
                      role |-> role, peer |-> peer, refs |-> @.refs]]
    IN
    /\ conns' = IF rollback THEN bt_conn_unref(entry, conn)
                ELSE IF accept THEN bt_conn_ref(entry, conn)
                ELSE entry
    /\ central_ring' =
          IF rollback THEN EmptyRing
          ELSE IF accept /\ role = "central" THEN populated(central_ring, conn, -50)
          ELSE central_ring
    /\ peripheral_ring' =
          IF accept /\ role = "peripheral" THEN populated(peripheral_ring, conn, -45)
          ELSE peripheral_ring
    /\ advertising' = IF accept THEN FALSE ELSE advertising
    /\ scanning' = IF accept THEN FALSE ELSE scanning
    /\ reconnect_work' = IF rollback THEN k_work_schedule(reconnect_work, 2000)
                         ELSE reconnect_work
    /\ rssi_work' = IF accept THEN k_work_schedule(rssi_work, RSSI_UPDATE_INTERVAL)
                    ELSE rssi_work
    /\ last' = [Seen("connected", conn) EXCEPT !.err = conn_err, !.role = role, !.dup = dup]
    /\ attempts' = IF role = "peripheral" THEN attempts + 1 ELSE attempts
    /\ quiet' = FALSE
    /\ UNCHANGED <<now, pm_vars, samples, adv_work, last_role_was_central, rssi_counter, rssi_run, pair, led_vars>>

\* The connected callback for a connection the scan module created.
connected_central(conn, conn_err) ==
    /\ conns[conn].st = "connecting"
    /\ connected_handler(conn, conn_err, "central", conns[conn].peer)

\* The connected callback for a connection a peer made to the advertiser; the
\* stack ends connectable advertising when it makes the connection.
connected_peripheral(conn, peer) ==
    /\ advertising
    /\ peer \in NewPeers
    /\ attempts < MaxAttempts
    /\ conn = bt_conn_new
    /\ connected_handler(conn, 0, "peripheral", peer)

\* disconnected() clearing the slot but for its readiness flags.
disconnected_keeps_ready(conn) ==
    LET is_central == conn = central_ring.conn
        is_peripheral == ~is_central /\ conn = peripheral_ring.conn
        entry == [conns EXCEPT ![conn].st = "released"]
    IN
    /\ conns[conn].st \in {"connected", "disconnecting"}
    /\ conns' = IF is_central \/ is_peripheral THEN bt_conn_unref(entry, conn) ELSE entry
    /\ central_ring' = IF is_central
                       THEN [EmptyRing EXCEPT !.hrs_ready = central_ring.hrs_ready,
                                              !.lbs_ready = central_ring.lbs_ready]
                       ELSE central_ring
    /\ peripheral_ring' = IF is_peripheral THEN EmptyRing ELSE peripheral_ring
    /\ reconnect_work' = IF is_central \/ is_peripheral
                         THEN k_work_schedule(reconnect_work, 1000)
                         ELSE reconnect_work
    /\ last' = [Seen("disconnected", conn) EXCEPT
                   !.role = IF is_central THEN "central"
                            ELSE IF is_peripheral THEN "peripheral" ELSE "none"]
    /\ quiet' = FALSE
    /\ UNCHANGED <<now, pm_vars, samples, attempts, scanning, advertising, adv_work, rssi_work,
                   last_role_was_central, rssi_counter, rssi_run, pair, led_vars>>

\* disconnected(conn, reason)
disconnected(conn) ==
    LET is_central == conn = central_ring.conn
        is_peripheral == ~is_central /\ conn = peripheral_ring.conn
        entry == [conns EXCEPT ![conn].st = "released"]
    IN
    /\ conns[conn].st \in {"connected", "disconnecting"}
    /\ conns' = IF is_central \/ is_peripheral THEN bt_conn_unref(entry, conn) ELSE entry
    /\ central_ring' = IF is_central THEN EmptyRing ELSE central_ring
    /\ peripheral_ring' = IF is_peripheral THEN EmptyRing ELSE peripheral_ring
    /\ reconnect_work' = IF is_central \/ is_peripheral
                         THEN k_work_schedule(reconnect_work, 1000)
                         ELSE reconnect_work
    /\ last' = [Seen("disconnected", conn) EXCEPT
                   !.role = IF is_central THEN "central"
                            ELSE IF is_peripheral THEN "peripheral" ELSE "none"]
    /\ quiet' = FALSE
    /\ UNCHANGED <<now, pm_vars, samples, attempts, scanning, advertising, adv_work, rssi_work,
                   last_role_was_central, rssi_counter, rssi_run, pair, led_vars>>

\* recycled_cb: a connection object has gone back to the pool, which the stack
\* does once nobody holds a reference to it.
recycled_cb(conn) ==
    /\ conns[conn].st = "released"
    /\ conns[conn].refs = 0
    /\ conns' = [conns EXCEPT ![conn] = FreeConn]
    /\ adv_work' = TRUE
    /\ last' = Seen("recycled_cb", conn)
    /\ UNCHANGED <<now, pm_vars, samples, quiet, attempts, central_ring, peripheral_ring, scanning, advertising,
                   reconnect_work, rssi_work, last_role_was_central, rssi_counter, rssi_run, pair, led_vars>>

\* The stack is creating an outgoing connection (BT_DEV_INITIATING): it
\* creates one at a time, bt_conn_le_create() failing for a second.
initiating == \E c \in Conns : conns[c].st = "connecting"

\* scan_connecting(device_info, conn): the scan module has matched a device,
\* stopped the scan and created the connection conn to it.
scan_connecting(conn, peer) ==
    /\ scanning
    /\ ~initiating
    /\ peer \in NewPeers
    /\ attempts < MaxAttempts
    /\ conn = bt_conn_new
    /\ scanning' = FALSE
    /\ attempts' = attempts + 1
    /\ conns' = bt_conn_ref([conns EXCEPT ![conn] =
                    [st |-> "connecting", role |-> "central", peer |-> peer, refs |-> 0]],
                    conn)
    /\ central_ring' = [central_ring EXCEPT !.conn = conn]
    /\ last' = Seen("scan_connecting", conn)
    /\ quiet' = FALSE
    /\ UNCHANGED <<now, pm_vars, samples, peripheral_ring, advertising, adv_work, reconnect_work,
                   rssi_work, last_role_was_central, rssi_counter, rssi_run, pair, led_vars>>

\* scan_connecting_error(device_info): the scan module has matched a device,
\* stopped the scan and failed to create the connection.
scan_connecting_error ==
    /\ scanning
    /\ scanning' = FALSE
    /\ reconnect_work' = k_work_schedule(reconnect_work, 2000)
    /\ last' = Seen("scan_connecting_error", NULL)
    /\ quiet' = FALSE
    /\ UNCHANGED <<now, pm_vars, samples, attempts, central_ring, peripheral_ring, conns, advertising,
                   adv_work, rssi_work, last_role_was_central, rssi_counter, rssi_run, pair, led_vars>>

\* The connection gatt_discover() was called for by connected(): an accepted
\* outgoing connection that is still up.
discovering(conn) == conns[conn].st = "connected" /\ conns[conn].role = "central"

\* discovery_completed_cb: the heart-rate service has been found on the peer;
\* hrs_ready is set when the subscription (err = 0) succeeded.
discovery_completed_cb(err) ==
    /\ \E conn \in Conns : discovering(conn)
    /\ ~central_ring.hrs_ready
    /\ ~central_ring.lbs_ready
    /\ central_ring' = [central_ring EXCEPT !.hrs_ready = IF err = 0 THEN TRUE ELSE @]
    /\ last' = [Seen("discovery_completed_cb", NULL) EXCEPT !.err = err]
    /\ UNCHANGED <<now, pm_vars, samples, quiet, attempts, peripheral_ring, conns, scanning,
                   advertising, adv_work, reconnect_work, rssi_work,
                   last_role_was_central, rssi_counter, rssi_run, pair, led_vars>>

\* discovery_completed_lbs_cb: the button service has been found on the peer;
\* lbs_ready is set when bt_gatt_subscribe (err = 0) succeeded.
discovery_completed_lbs_cb(err) ==
    /\ \E conn \in Conns : discovering(conn)
    /\ ~central_ring.lbs_ready
    /\ central_ring' = [central_ring EXCEPT !.lbs_ready = IF err = 0 THEN TRUE ELSE @]
    /\ last' = [Seen("discovery_completed_lbs_cb", NULL) EXCEPT !.err = err]
    /\ UNCHANGED <<now, pm_vars, samples, quiet, attempts, peripheral_ring, conns, scanning,
                   advertising, adv_work, reconnect_work, rssi_work,
                   last_role_was_central, rssi_counter, rssi_run, pair, led_vars>>

\* rssi_work_handler: one sample for each slot whose connection is connected,
\* the central slot first; re-armed when a sample was taken.
rssi_work_handler ==
    LET sample_central == central_ring.conn # NULL /\ is_connected(central_ring.conn)
        sample_peripheral ==
            peripheral_ring.conn # NULL /\ is_connected(peripheral_ring.conn)
        counter_central == IF sample_central THEN rssi_counter + 1 ELSE rssi_counter
        counter_peripheral ==
            IF sample_peripheral THEN counter_central + 1 ELSE counter_central
    IN
    /\ wq_idle
    /\ rssi_work.armed
    /\ now = rssi_work.deadline
    /\ central_ring' =
          IF sample_central
          THEN rssi_sample(central_ring, get_real_rssi(counter_central))
          ELSE central_ring
    /\ peripheral_ring' =
          IF sample_peripheral
          THEN rssi_sample(peripheral_ring, get_real_rssi(counter_peripheral) + 5)
          ELSE peripheral_ring
    /\ rssi_counter' = counter_peripheral
    /\ rssi_work' = IF sample_central \/ sample_peripheral
                    THEN k_work_schedule(NotScheduled, RSSI_UPDATE_INTERVAL)
                    ELSE NotScheduled
    /\ last' = Seen("rssi_work_handler", NULL)
    /\ UNCHANGED <<now, pm_vars, samples, quiet, attempts, conns, scanning, advertising, adv_work,
                   reconnect_work, last_role_was_central, rssi_run, pair, led_vars>>

\* ------------------------------------------------------------------------
\* rssi_work_handler statement by statement
\* ------------------------------------------------------------------------
\* The handler runs on the system work queue, the connection and scan
\* callbacks on the Bluetooth thread; the slots are plain statics that no
\* lock protects, so a callback can run between any two statements of the
\* handler.
ring_of(slot) == IF slot = "central" THEN central_ring ELSE peripheral_ring

\* Where the handler goes once it is done with a slot: on to the peripheral
\* slot, then to the k_work_schedule at its end.
after_slot(run) ==
    IF run.slot = "central"
    THEN [run EXCEPT !.pc = "check", !.slot = "peripheral"]
    ELSE [run EXCEPT !.pc = "end", !.slot = "none"]

race_frame == <<now, pm_vars, samples, quiet, attempts, conns, scanning, advertising,
                adv_work, reconnect_work, last_role_was_central, pair, led_vars>>

\* The work queue takes rssi_work, which is due, and enters the handler.
rssi_work_begin ==
    /\ wq_idle
    /\ rssi_work.armed
    /\ now = rssi_work.deadline
    /\ rssi_work' = NotScheduled
    /\ rssi_run' = [pc |-> "check", slot |-> "central", reschedule |-> FALSE]
    /\ last' = Seen("rssi_work_begin", NULL)
    /\ UNCHANGED <<race_frame, central_ring, peripheral_ring, rssi_counter>>

\* if (ring.conn)
rssi_check(slot) ==
    /\ rssi_run.pc = "check"
    /\ rssi_run.slot = slot
    /\ rssi_run' = IF ring_of(slot).conn # NULL
                   THEN [rssi_run EXCEPT !.pc = "info"]
                   ELSE after_slot(rssi_run)
    /\ last' = [Seen("rssi_check", NULL) EXCEPT !.role = slot]
    /\ UNCHANGED <<race_frame, central_ring, peripheral_ring, rssi_counter, rssi_work>>

\* if (!bt_conn_get_info(ring.conn, &info) && info.state == CONNECTED); the
\* call dereferences its argument, so on a pointer that has become NULL since
\* the test above the outcome `up` is anything.
rssi_info(slot, up) ==
    /\ rssi_run.pc = "info"
    /\ rssi_run.slot = slot
    /\ ring_of(slot).conn # NULL => up = is_connected(ring_of(slot).conn)
    /\ rssi_run' = IF up THEN [rssi_run EXCEPT !.pc = "add"] ELSE after_slot(rssi_run)
    /\ last' = [Seen("rssi_info", NULL) EXCEPT !.role = slot]
    /\ UNCHANGED <<race_frame, central_ring, peripheral_ring, rssi_counter, rssi_work>>

\* new_rssi = get_real_rssi(ring.conn) (+ 5 for the peripheral slot);
\* rssi_filter_add(&ring.rssi_filter, new_rssi)
rssi_add(slot) ==
    LET new_rssi == get_real_rssi(rssi_counter + 1) + (IF slot = "central" THEN 0 ELSE 5)
        written == [ring_of(slot) EXCEPT !.rssi_filter = rssi_filter_add(@, new_rssi)]
    IN
    /\ rssi_run.pc = "add"
    /\ rssi_run.slot = slot
    /\ rssi_counter' = rssi_counter + 1
    /\ central_ring' = IF slot = "central" THEN written ELSE central_ring
    /\ peripheral_ring' = IF slot = "peripheral" THEN written ELSE peripheral_ring
    /\ rssi_run' = [rssi_run EXCEPT !.pc = "report"]
    /\ last' = [Seen("rssi_add", new_rssi) EXCEPT !.role = slot]
    /\ UNCHANGED <<race_frame, rssi_work>>

\* filtered_rssi, new_distance, the comparison with the reported pair and the
\* two assignments; reschedule = true
rssi_report(slot) ==
    LET ring == ring_of(slot)
        filtered_rssi == rssi_filter_get_average(ring.rssi_filter)
        new_distance == estimate_distance(filtered_rssi)
        diff == filtered_rssi - ring.current_rssi
        report == new_distance # ring.distance \/ (IF diff < 0 THEN -diff ELSE diff) > 3
        written == [ring EXCEPT !.current_rssi = IF report THEN filtered_rssi ELSE @,
                                !.distance = IF report THEN new_distance ELSE @]
    IN
    /\ rssi_run.pc = "report"
    /\ rssi_run.slot = slot
    /\ central_ring' = IF slot = "central" THEN written ELSE central_ring
    /\ peripheral_ring' = IF slot = "peripheral" THEN written ELSE peripheral_ring
    /\ rssi_run' = after_slot([rssi_run EXCEPT !.reschedule = TRUE])
    /\ last' = [Seen("rssi_report", NULL) EXCEPT !.role = slot, !.updated = report]
    /\ UNCHANGED <<race_frame, rssi_counter, rssi_work>>

\* if (reschedule) k_work_schedule(&rssi_work, K_MSEC(RSSI_UPDATE_INTERVAL))
rssi_work_end ==
    /\ rssi_run.pc = "end"
    /\ rssi_work' = IF rssi_run.reschedule
                    THEN k_work_schedule(rssi_work, RSSI_UPDATE_INTERVAL)
                    ELSE rssi_work
    /\ rssi_run' = NotRunning
    /\ last' = Seen("rssi_work_end", NULL)
    /\ UNCHANGED <<race_frame, central_ring, peripheral_ring, rssi_counter>>

\* ------------------------------------------------------------------------
\* The power manager on its own
\* ------------------------------------------------------------------------
\* Uptime at which an undisturbed Active run from a full battery has drained
\* it to LowBattery: the periodic handler runs every 3000 ms, so the battery
\* block is entered every 63000 ms and lowers the level by one each time.
DrainedUptime == (BATTERY_FULL - LowBattery) * 63000

TimeSteps == {1000, 20000}

Horizon == IF now >= DrainedUptime THEN DrainedUptime + MaxElapsed ELSE MaxElapsed

\* init_nrf54l15_power_optimization(), right after boot
PMInitFresh ==
    /\ now = 0
    /\ power_mgr = [current_mode |-> POWER_MODE_ACTIVE, last_activity_time |-> 0,
                    battery_level |-> BATTERY_FULL, ultra_low_power |-> FALSE,
                    mode_change_time |-> 0, total_active_time |-> 0,
                    total_sleep_time |-> 0]
    /\ last_battery_update = 0
    /\ drain_counter = 0
    /\ unified_work = [armed |-> TRUE, deadline |-> RSSI_INTERVAL_ACTIVE]

\* The same run DrainedUptime later, the user active all along: the mode never
\* left Active, the handler and a user-activity event have just run.
PMInitDrained ==
    /\ now = DrainedUptime
    /\ power_mgr = [current_mode |-> POWER_MODE_ACTIVE, last_activity_time |-> DrainedUptime,
                    battery_level |-> LowBattery, ultra_low_power |-> FALSE,
                    mode_change_time |-> 0, total_active_time |-> 0,
                    total_sleep_time |-> 0]
    /\ last_battery_update = DrainedUptime
    /\ drain_counter = 0
    /\ unified_work = [armed |-> TRUE, deadline |-> DrainedUptime + RSSI_INTERVAL_ACTIVE]

\* The link slots stay as they are while the power manager is explored:
\* each is empty, or holds an established link as connected() left it, or -
\* the central slot - a connection scan_connecting has just put there.
PMInit ==
    /\ PMInitFresh \/ PMInitDrained
    /\ \E as_central \in {"none", "connecting", "connected"}, as_peripheral \in BOOLEAN :
          /\ central_ring =
                IF as_central = "connected" THEN populated(EmptyRing, 1, -50)
                ELSE IF as_central = "connecting" THEN [EmptyRing EXCEPT !.conn = 1]
                ELSE EmptyRing
          /\ peripheral_ring =
                IF as_peripheral THEN populated(EmptyRing, 2, -45) ELSE EmptyRing
          /\ conns = [c \in Conns |->
                IF c = 1 /\ as_central = "connected"
                THEN [st |-> "connected", role |-> "central", peer |-> 1, refs |-> 2]
                ELSE IF c = 1 /\ as_central = "connecting"
                THEN [st |-> "connecting", role |-> "central", peer |-> 1, refs |-> 1]
                ELSE IF c = 2 /\ as_peripheral
                THEN [st |-> "connected", role |-> "peripheral", peer |-> 2, refs |-> 1]
                ELSE FreeConn]
          /\ rssi_work = IF as_central = "connected" \/ as_peripheral
                         THEN [armed |-> TRUE, deadline |-> now + RSSI_UPDATE_INTERVAL]
                         ELSE NotScheduled
    /\ scanning = FALSE
    /\ advertising = FALSE
    /\ adv_work = FALSE
    /\ reconnect_work = NotScheduled
    /\ last_role_was_central = FALSE
    /\ rssi_counter = 0
    /\ rssi_run = NotRunning
    /\ pair = [d \in Devices |-> BootDevice]
    /\ LedInit
    /\ attempts = 0
    /\ samples = <<>>
    /\ quiet = TRUE
    /\ conn_param = [c \in Conns |-> NoProfile]
    /\ active_updates = NoRun
    /\ calls = 0
    /\ last = Seen("init", NULL)

\* Time passes: up to the deadline of the periodic handler when it is armed,
\* and in one stride from one handler to the next.
AdvanceTime(d) ==
    LET target == IF unified_work.armed /\ unified_work.deadline < now + d
                  THEN unified_work.deadline ELSE now + d
    IN /\ last.op # "time"
       /\ target <= Horizon
       /\ unified_work.armed => now < unified_work.deadline
       /\ now' = target
       /\ last' = Seen("time", NULL)
       /\ UNCHANGED <<power_mgr, batt_vars, unified_work, conn_param, link_vars, attempts, samples, quiet,
                      active_updates, calls>>

vars == <<now, pm_vars, link_vars, attempts, samples, quiet, last>>

PMNext ==
    \/ unified_periodic_work_handler
    \/ on_user_activity
    \/ \E conn \in Conns : on_connection_established(conn)
    \/ on_connection_lost
    \/ \E d \in TimeSteps : AdvanceTime(d)

SpecPM == PMInit /\ [][PMNext]_vars

\* ------------------------------------------------------------------------
\* The link slots, the scheduler and the Bluetooth stack
\* ------------------------------------------------------------------------
\* main(), after "Starting scan & advertising": both slots empty, scan_start()
\* called, adv_work submitted.
LinkInit ==
    /\ PMInitFresh
    /\ conn_param = [c \in Conns |-> NoProfile]
    /\ active_updates = NoRun
    /\ calls = 0
    /\ central_ring = EmptyRing
    /\ peripheral_ring = EmptyRing
    /\ conns = [c \in Conns |-> FreeConn]
    /\ scanning \in BOOLEAN
    /\ advertising = FALSE
    /\ adv_work = TRUE
    /\ reconnect_work = NotScheduled
    /\ rssi_work = NotScheduled
    /\ last_role_was_central = FALSE
    /\ rssi_counter = 0
    /\ rssi_run = NotRunning
    /\ pair = [d \in Devices |-> BootDevice]
    /\ LedInit
    /\ attempts = 0
    /\ samples = <<>>
    /\ quiet = TRUE
    /\ last = [Seen("main", NULL) EXCEPT !.err = IF scanning THEN 0 ELSE 1]

LinkDeadlines ==
    {w.deadline : w \in {x \in {reconnect_work, rssi_work} : x.armed}}

\* Time passes up to the next deadline of the work queue, once the work that
\* is due has run.
LinkAdvanceTime ==
    /\ wq_idle
    /\ ~adv_work
    /\ LinkDeadlines # {}
    /\ \A d \in LinkDeadlines : d > now
    /\ \E d \in LinkDeadlines :
          /\ \A e \in LinkDeadlines : d <= e
          /\ d <= MaxLinkTime
          /\ now' = d
    /\ last' = Seen("time", NULL)
    /\ UNCHANGED <<pm_vars, link_vars, attempts, samples, quiet>>

LinkNext ==
    \/ \E ok \in BOOLEAN : adv_work_handler(ok)
    \/ \E ok \in BOOLEAN : reconnect_work_handler(ok)
    \/ \E conn \in Conns, peer \in Peers : scan_connecting(conn, peer)
    \/ scan_connecting_error
    \/ \E conn \in Conns, conn_err \in {0, 2} : connected_central(conn, conn_err)
    \/ \E conn \in Conns, peer \in Peers : connected_peripheral(conn, peer)
    \/ \E conn \in Conns : disconnected(conn)
    \/ \E conn \in Conns : recycled_cb(conn)
    \/ \E err \in {0, 1} : discovery_completed_cb(err)
    \/ \E err \in {0, 1} : discovery_completed_lbs_cb(err)
    \/ rssi_work_handler
    \/ LinkAdvanceTime

SpecLink == LinkInit /\ [][LinkNext]_vars

\* The same with every capability start succeeding, the work queue running
\* the work that is due, and time passing.  Service discovery, which writes
\* the readiness flags of the central slot and nothing else, is left out.
LinkNextOk ==
    \/ adv_work_handler(TRUE)
    \/ reconnect_work_handler(TRUE)
    \/ \E conn \in Conns, peer \in Peers : scan_connecting(conn, peer)
    \/ scan_connecting_error
    \/ \E conn \in Conns, conn_err \in {0, 2} : connected_central(conn, conn_err)
    \/ \E conn \in Conns, peer \in Peers : connected_peripheral(conn, peer)
    \/ \E conn \in Conns : disconnected(conn)
    \/ \E conn \in Conns : recycled_cb(conn)
    \/ rssi_work_handler
    \/ LinkAdvanceTime

\* main() with scan_start() succeeding.
LinkInitOk == LinkInit /\ scanning = TRUE

SpecLinkFair ==
    /\ LinkInitOk
    /\ [][LinkNextOk]_vars
    /\ WF_vars(adv_work_handler(TRUE))
    /\ WF_vars(reconnect_work_handler(TRUE))
    /\ WF_vars(rssi_work_handler)
    /\ WF_vars(LinkAdvanceTime)

\* ------------------------------------------------------------------------
\* The two threads interleaved
\* ------------------------------------------------------------------------
\* The work items one at a time on the work queue thread, rssi_work_handler
\* one statement at a time, and the callbacks of the Bluetooth thread at any
\* point in between.
RaceNext ==
    \/ \E ok \in BOOLEAN : adv_work_handler(ok)
    \/ \E ok \in BOOLEAN : reconnect_work_handler(ok)
    \/ rssi_work_begin
    \/ \E slot \in {"central", "peripheral"} : rssi_check(slot)
    \/ \E slot \in {"central", "peripheral"}, up \in BOOLEAN : rssi_info(slot, up)
    \/ \E slot \in {"central", "peripheral"} : rssi_add(slot)
    \/ \E slot \in {"central", "peripheral"} : rssi_report(slot)
    \/ rssi_work_end
    \/ \E conn \in Conns, peer \in Peers : scan_connecting(conn, peer)
    \/ scan_connecting_error
    \/ \E conn \in Conns, conn_err \in {0, 2} : connected_central(conn, conn_err)
    \/ \E conn \in Conns, peer \in Peers : connected_peripheral(conn, peer)
    \/ \E conn \in Conns : disconnected(conn)
    \/ \E conn \in Conns : recycled_cb(conn)
    \/ \E err \in {0, 1} : discovery_completed_cb(err)
    \/ \E err \in {0, 1} : discovery_completed_lbs_cb(err)
    \/ LinkAdvanceTime

SpecRace == LinkInit /\ [][RaceNext]_vars

\* ------------------------------------------------------------------------
\* Two devices running the reconnection policy side by side
\* ------------------------------------------------------------------------
\* Both devices run the same firmware on the same clock, their slots empty
\* throughout: no connection is made between them.  Every bt_scan_start and
\* bt_le_adv_start succeeds unless the capability is on already.

\* A device whose link has just been lost: connected() had stopped the scan
\* and advertising, disconnected() has armed reconnect_work for 1 s; the
\* alternation flag is wherever earlier runs of the policy left it.
LostDevice(flag) ==
    [scanning |-> FALSE, advertising |-> FALSE, adv_work |-> FALSE,
     reconnect_work |-> [armed |-> TRUE, deadline |-> 1000],
     last_role_was_central |-> flag]

\* adv_work_handler on a device
device_adv_work(dev) ==
    [dev EXCEPT !.adv_work = FALSE,
                !.advertising = TRUE,
                !.reconnect_work = IF dev.advertising
                                   THEN k_work_schedule(@, 5000) ELSE @]

\* The policy starting the scan on every run.
device_reconnect_scan_only(dev) ==
    [dev EXCEPT !.scanning = TRUE,
                !.reconnect_work = k_work_schedule(NotScheduled, 1500),
                !.last_role_was_central = TRUE]

\* reconnect_work_handler on a device
device_reconnect(dev) ==
    IF ~dev.last_role_was_central
    THEN [dev EXCEPT !.scanning = TRUE,
                     !.reconnect_work = k_work_schedule(NotScheduled, 1500),
                     !.last_role_was_central = TRUE]
    ELSE [dev EXCEPT !.adv_work = TRUE,
                     !.reconnect_work = k_work_schedule(NotScheduled, 1500),
                     !.last_role_was_central = FALSE]

\* scan_connecting_error on a device: the scan module has stopped the scan
\* for a connection it then failed to create.
device_scan_error(dev) ==
    [dev EXCEPT !.scanning = FALSE,
                !.reconnect_work = k_work_schedule(@, 2000)]

pair_frame == <<pm_vars, central_ring, peripheral_ring, conns, scanning, advertising,
                adv_work, reconnect_work, rssi_work, last_role_was_central,
                rssi_counter, rssi_run, attempts, samples, quiet, led_vars>>

pair_adv_work_handler(d) ==
    /\ pair[d].adv_work
    /\ pair' = [pair EXCEPT ![d] = device_adv_work(@)]
    /\ last' = Seen("pair_adv_work_handler", d)
    /\ UNCHANGED <<now, pair_frame>>

pair_reconnect_work_handler(d) ==
    /\ pair[d].reconnect_work.armed
    /\ pair[d].reconnect_work.deadline = now
    /\ pair' = [pair EXCEPT ![d] = device_reconnect(@)]
    /\ last' = Seen("pair_reconnect_work_handler", d)
    /\ UNCHANGED <<now, pair_frame>>

pair_scan_connecting_error(d) ==
    /\ pair[d].scanning
    /\ pair' = [pair EXCEPT ![d] = device_scan_error(@)]
    /\ last' = Seen("pair_scan_connecting_error", d)
    /\ UNCHANGED <<now, pair_frame>>

PairDeadlines ==
    {pair[d].reconnect_work.deadline : d \in {e \in Devices : pair[e].reconnect_work.armed}}

\* Time passes on both devices alike, up to the next deadline, once the work
\* that is due on either has run.
PairAdvanceTime ==
    /\ \A d \in Devices : ~pair[d].adv_work
    /\ PairDeadlines # {}
    /\ \A t \in PairDeadlines : t > now
    /\ \E t \in PairDeadlines :
          /\ \A u \in PairDeadlines : t <= u
          /\ t <= MaxLinkTime
          /\ now' = t
    /\ last' = Seen("time", NULL)
    /\ UNCHANGED pair_frame
    /\ UNCHANGED pair

\* Each device is fresh from main(), or has just lost its link.
PairInit ==
    /\ PMInitFresh
    /\ conn_param = [c \in Conns |-> NoProfile]
    /\ active_updates = NoRun
    /\ calls = 0
    /\ central_ring = EmptyRing
    /\ peripheral_ring = EmptyRing
    /\ conns = [c \in Conns |-> FreeConn]
    /\ scanning = FALSE
    /\ advertising = FALSE
    /\ adv_work = FALSE
    /\ reconnect_work = NotScheduled
    /\ rssi_work = NotScheduled
    /\ last_role_was_central = FALSE
    /\ rssi_counter = 0
    /\ rssi_run = NotRunning
    /\ attempts = 0
    /\ samples = <<>>
    /\ quiet = TRUE
    /\ pair \in [Devices -> {BootDevice, LostDevice(FALSE), LostDevice(TRUE)}]
    /\ LedInit
    /\ last = Seen("main", NULL)

PairWork ==
    \/ \E d \in Devices : pair_adv_work_handler(d)
    \/ \E d \in Devices : pair_reconnect_work_handler(d)
    \/ PairAdvanceTime

PairNext ==
    \/ \E d \in Devices : pair_adv_work_handler(d)
    \/ \E d \in Devices : pair_reconnect_work_handler(d)
    \/ \E d \in Devices : pair_scan_connecting_error(d)
    \/ PairAdvanceTime

\* The work queues run the work that is due and time passes.
SpecPair == PairInit /\ [][PairNext]_vars /\ WF_vars(PairWork)

\* ------------------------------------------------------------------------
\* The proximity filter and the distance classifier on arbitrary readings
\* ------------------------------------------------------------------------
\* int8_t
Int8 == -128..127

\* Readings fed to the filter.
FilterSamples == {-91, -60, -57, 7}

\* The central slot just after connected() has accepted connection 1.
RssiInit ==
    /\ PMInitFresh
    /\ conn_param = [c \in Conns |-> NoProfile]
    /\ active_updates = NoRun
    /\ calls = 0
    /\ central_ring = populated(EmptyRing, 1, -50)
    /\ peripheral_ring = EmptyRing
    /\ conns = [c \in Conns |->
          IF c = 1 THEN [st |-> "connected", role |-> "central", peer |-> 1, refs |-> 2]
          ELSE FreeConn]
    /\ scanning = FALSE
    /\ advertising = FALSE
    /\ adv_work = FALSE
    /\ reconnect_work = NotScheduled
    /\ rssi_work = [armed |-> TRUE, deadline |-> RSSI_UPDATE_INTERVAL]
    /\ last_role_was_central = FALSE
    /\ rssi_counter = 0
    /\ rssi_run = NotRunning
    /\ pair = [d \in Devices |-> BootDevice]
    /\ LedInit
    /\ attempts = 1
    /\ samples = <<>>
    /\ quiet = FALSE
    /\ last = Seen("connected", 1)

rssi_vars == <<now, pm_vars, peripheral_ring, conns, scanning, advertising, adv_work,
               reconnect_work, rssi_work, last_role_was_central, rssi_counter,
               rssi_run, pair, led_vars, attempts, quiet>>

\* The central slot's part of rssi_work_handler for the reading new_rssi:
\* rssi_filter_add, rssi_filter_get_average, estimate_distance.
central_sample(new_rssi) ==
    /\ Len(samples) < MaxSamples
    /\ central_ring' = rssi_sample(central_ring, new_rssi)
    /\ samples' = Append(samples, new_rssi)
    /\ last' = [Seen("rssi_filter_add", new_rssi) EXCEPT
                   !.result = rssi_filter_get_average(central_ring'.rssi_filter)]
    /\ UNCHANGED rssi_vars

\* rssi_filter_init on the central slot's filter.
central_filter_reset ==
    /\ samples # <<>>
    /\ central_ring' = [central_ring EXCEPT !.rssi_filter = rssi_filter_init]
    /\ samples' = <<>>
    /\ last' = Seen("rssi_filter_init", NULL)
    /\ UNCHANGED rssi_vars

FilterNext ==
    \/ \E new_rssi \in FilterSamples : central_sample(new_rssi)
    \/ central_filter_reset

SpecFilter == RssiInit /\ [][FilterNext]_vars

\* estimate_distance applied to the reading rssi, the result kept in the
\* central slot as rssi_work_handler keeps it.
classify(rssi) ==
    /\ central_ring' = [central_ring EXCEPT !.current_rssi = rssi,
                                            !.distance = estimate_distance(rssi)]
    /\ last' = [Seen("estimate_distance", rssi) EXCEPT
                   !.result = estimate_distance(rssi)]
    /\ UNCHANGED <<rssi_vars, samples>>

DistanceNext == \E rssi \in Int8 : classify(rssi)

SpecDistance == RssiInit /\ [][DistanceNext]_vars

\* ------------------------------------------------------------------------
\* print_power_statistics on arbitrary accumulators
\* ------------------------------------------------------------------------
\* uint32_t arithmetic, a value kept as <<high 16 bits, low 16 bits>>
Limb == 65536

u32(n) == <<n \div Limb, n % Limb>>

\* The value of x when it is below 2^31.
u32_int(x) == x[1] * Limb + x[2]

\* x + y, modulo 2^32
u32_add(x, y) ==
    LET lo == x[2] + y[2] IN
    <<(x[1] + y[1] + lo \div Limb) % Limb, lo % Limb>>

\* x - y, modulo 2^32
u32_sub(x, y) ==
    LET lo == x[2] - y[2]
        borrow == IF lo < 0 THEN 1 ELSE 0
    IN <<(x[1] - y[1] - borrow + 2 * Limb) % Limb, (lo + Limb) % Limb>>

\* x * c for a small constant c, modulo 2^32
u32_mul(x, c) ==
    LET lo == x[2] * c IN
    <<(x[1] * c + lo \div Limb) % Limb, lo % Limb>>

\* x / t for a divisor 0 < t < 2^30 and a quotient below 2^31: x is split
\* into its top bit and the 31 bits below it, and 2^31 into 2147483647 + 1.
u32_div(x, t) ==
    LET top == x[1] \div 32768
        rest == (x[1] % 32768) * Limb + x[2]
    IN IF top = 0 THEN rest \div t
       ELSE 2147483647 \div t + rest \div t
            + ((2147483647 % t) + 1 + (rest % t)) \div t

\* Accumulator values the statistics are computed for, in ms, all below 2^29.
StatTimes == {0, 1, 3, 1000, 3600000, 42949672, 42949673, 64424510,
              85899346, 400000000, 536870911}

\* (total_active_time * 100) / total_time, in uint32_t
active_percentage(pm) ==
    LET total_time == u32_add(u32(pm.total_active_time), u32(pm.total_sleep_time)) IN
    u32_div(u32_mul(u32(pm.total_active_time), 100), u32_int(total_time))

\* print_power_statistics: nothing when total_time is 0, else the two
\* percentages handed to printk.
print_power_statistics ==
    LET total_time == u32_add(u32(power_mgr.total_active_time),
                              u32(power_mgr.total_sleep_time))
        sleep_percentage == u32_sub(u32(100), u32(active_percentage(power_mgr)))
    IN /\ last.op # "print_power_statistics"
       /\ last' = IF total_time = <<0, 0>>
                  THEN Seen("print_power_statistics", NULL)
                  ELSE [Seen("print_power_statistics", NULL) EXCEPT
                           !.updated = TRUE,
                           !.result = <<active_percentage(power_mgr),
                                        u32_int(sleep_percentage)>>]
       /\ UNCHANGED <<now, pm_vars, link_vars, attempts, samples, quiet>>

\* The power manager some time after init, with the accumulators at any two
\* of the values of StatTimes.
StatsInit ==
    /\ now = 0
    /\ \E active \in StatTimes, sleep \in StatTimes :
          power_mgr = [current_mode |-> POWER_MODE_ACTIVE, last_activity_time |-> 0,
                       battery_level |-> BATTERY_FULL, ultra_low_power |-> FALSE,
                       mode_change_time |-> 0, total_active_time |-> active,
                       total_sleep_time |-> sleep]
    /\ last_battery_update = 0
    /\ drain_counter = 0
    /\ unified_work = [armed |-> TRUE, deadline |-> RSSI_INTERVAL_ACTIVE]
    /\ conn_param = [c \in Conns |-> NoProfile]
    /\ active_updates = NoRun
    /\ calls = 0
    /\ central_ring = EmptyRing
    /\ peripheral_ring = EmptyRing
    /\ conns = [c \in Conns |-> FreeConn]
    /\ scanning = FALSE
    /\ advertising = FALSE
    /\ adv_work = FALSE
    /\ reconnect_work = NotScheduled
    /\ rssi_work = NotScheduled
    /\ last_role_was_central = FALSE
    /\ rssi_counter = 0
    /\ rssi_run = NotRunning
    /\ pair = [d \in Devices |-> BootDevice]
    /\ LedInit
    /\ attempts = 0
    /\ samples = <<>>
    /\ quiet = TRUE
    /\ last = Seen("init", NULL)

SpecStats == StatsInit /\ [][print_power_statistics]_vars

\* ------------------------------------------------------------------------
\* The LED manager on its own
\* ------------------------------------------------------------------------
\* The callers and the work queue thread interleaved, one step of one thread
\* at a time; the rest of the application stays as main() left it.
SpecLed == LinkInitOk /\ [][LedNext]_vars

\* ------------------------------------------------------------------------
\* Properties of the link slots
\* ------------------------------------------------------------------------

\* C1: the central slot and the peripheral slot never both hold a connection
\* to the same peer address.
C1_SlotsNeverShareAPeer ==
    ~ /\ central_ring.conn # NULL
      /\ peripheral_ring.conn # NULL
      /\ conns[central_ring.conn].peer = conns[peripheral_ring.conn].peer

\* C2: when connected() runs without error for a connection of one role while
\* the slot of the other role holds a connection to the same peer address, the
\* new connection is disconnected and neither slot is changed by the handler.
C2_DuplicateLinkRejected ==
    [][\A conn \in Conns :
          ( /\ last'.op = "connected"
            /\ last'.arg = conn
            /\ last'.err = 0
            /\ \/ /\ last'.role = "central"
                  /\ peripheral_ring.conn # NULL
                  /\ conns[peripheral_ring.conn].peer = conns'[conn].peer
               \/ /\ last'.role = "peripheral"
                  /\ central_ring.conn # NULL
                  /\ conns[central_ring.conn].peer = conns'[conn].peer )
          => /\ conns'[conn].st = "disconnecting"
             /\ conns'[conn].refs = conns[conn].refs
             /\ central_ring' = central_ring
             /\ peripheral_ring' = peripheral_ring]_vars

\* The central slot holds an established connection to a peer, and the
\* connection that peer then made to the advertiser has just been rejected.
C2_Witness ==
    /\ last.op = "connected"
    /\ last.role = "peripheral"
    /\ last.dup
    /\ conns[last.arg].st = "disconnecting"
    /\ central_ring.conn # NULL
    /\ conns[central_ring.conn].st = "connected"
    /\ conns[central_ring.conn].peer = conns[last.arg].peer
    /\ peripheral_ring.conn = NULL

\* A slot record with every field at its default, or with a connection and
\* the rssi/distance pair that goes with one.
EmptyOrPopulated(ring) ==
    \/ ring = EmptyRing
    \/ /\ ring.conn # NULL
       /\ ring.current_rssi # 0
       /\ ring.distance # DISTANCE_UNKNOWN

\* C15: between handlers each slot is either fully empty or fully populated.
C15_SlotsEmptyOrPopulated ==
    /\ EmptyOrPopulated(central_ring)
    /\ EmptyOrPopulated(peripheral_ring)

\* C16: while the central slot holds an established connection the device is
\* not advertising, and while the peripheral slot holds one it is not scanning.
C16_OccupiedRoleSuspendsOther ==
    /\ (central_ring.conn # NULL /\ conns[central_ring.conn].st = "connected")
          => ~advertising
    /\ (peripheral_ring.conn # NULL /\ conns[peripheral_ring.conn].st = "connected")
          => ~scanning

\* C17: after disconnected() has emptied a slot, reconnect_work is pending
\* and the capability suspended for that slot is started again by its second
\* firing at the latest: advertising after the central slot was lost,
\* scanning after the peripheral slot was lost.  (The uptime explored ends at
\* MaxLinkTime, so the second firing has to fall within it.)
C17_LostSlotResumesCapability ==
    /\ []((last.op = "disconnected" /\ last.role # "none")
             => (reconnect_work.armed /\ reconnect_work.deadline <= now + 5000))
    /\ (last.op = "disconnected" /\ last.role = "central"
           /\ reconnect_work.deadline + 1500 <= MaxLinkTime) ~> advertising
    /\ (last.op = "disconnected" /\ last.role = "peripheral"
           /\ reconnect_work.deadline + 1500 <= MaxLinkTime) ~> scanning

\* The central slot was lost with the alternation about to start the scan
\* first, and advertising has been started by the second firing of the timer.
C17_Witness ==
    /\ last.op = "adv_work_handler"
    /\ advertising
    /\ central_ring.conn = NULL
    /\ \E c \in Conns : conns[c].st = "released" /\ conns[c].role = "central"
    /\ ~last_role_was_central
    /\ now >= 2500

\* C18: whenever a capability start has failed - the scan in main() or in
\* reconnect_work_handler, advertising in adv_work_handler - the retry is
\* pending and due 5 seconds later.
C18_StartFailureRetriesInFive ==
    (last.op \in {"main", "adv_work_handler", "reconnect_work_handler"} /\ last.err # 0)
        => (reconnect_work.armed /\ reconnect_work.deadline = now + 5000)

\* C19: with both slots empty and no link event since boot, so that
\* reconnect_work is armed by capability-start failures only, the retries are
\* due 5 seconds apart (at multiples of 5 s of uptime, the first failure being
\* at boot) and last_role_was_central keeps its initial value.
C19_StartRetriesKeepAlternation ==
    (quiet /\ central_ring.conn = NULL /\ peripheral_ring.conn = NULL)
        => /\ last_role_was_central = FALSE
           /\ reconnect_work.armed => reconnect_work.deadline % 5000 = 0

\* C20: every run of reconnect_work_handler toggles last_role_was_central,
\* starts exactly one capability - the scan when the flag was false,
\* advertising when it was true - and re-arms itself for 1500 ms later.
C20_ReconnectAlternates ==
    [][last'.op = "reconnect_work_handler" =>
          /\ last_role_was_central' = ~last_role_was_central
          /\ ~last_role_was_central =>
                /\ scanning' \/ last'.err # 0
                /\ adv_work' = adv_work
          /\ last_role_was_central =>
                /\ adv_work'
                /\ scanning' = scanning
                /\ last'.err = 0
          /\ advertising' = advertising
          /\ reconnect_work' = [armed |-> TRUE, deadline |-> now + 1500]]_vars

\* The handler has run for the second time, 1500 ms after the first: the
\* first run started the scan, this one has submitted advertising.
C20_Witness ==
    /\ last.op = "reconnect_work_handler"
    /\ last.role = "peripheral"
    /\ ~last_role_was_central
    /\ adv_work
    /\ now >= 1000 + 1500
    /\ reconnect_work = [armed |-> TRUE, deadline |-> now + 1500]

\* C21: disconnected() for the connection a slot holds leaves that slot with
\* every field at its default (no connection, filter reset, readiness flags
\* false, rssi 0, distance Unknown), leaves the other slot as it was and
\* leaves reconnect_work pending (due in 1 s when it was not pending before);
\* disconnected() for a connection that neither slot holds changes neither.
C21_DisconnectEmptiesItsSlot ==
    [][\A conn \in Conns :
          (last'.op = "disconnected" /\ last'.arg = conn) =>
             /\ conn = central_ring.conn =>
                   /\ central_ring' = EmptyRing
                   /\ conn # peripheral_ring.conn => peripheral_ring' = peripheral_ring
             /\ conn = peripheral_ring.conn =>
                   /\ peripheral_ring' = EmptyRing
                   /\ conn # central_ring.conn => central_ring' = central_ring
             /\ conn \in {central_ring.conn, peripheral_ring.conn} =>
                   /\ reconnect_work'.armed
                   /\ ~reconnect_work.armed => reconnect_work'.deadline = now + 1000
             /\ conn \notin {central_ring.conn, peripheral_ring.conn} =>
                   /\ central_ring' = central_ring
                   /\ peripheral_ring' = peripheral_ring]_vars

\* The central slot has just been emptied by disconnected() while the
\* peripheral slot keeps its established connection and its samples.
C21_Witness ==
    /\ last.op = "disconnected"
    /\ last.role = "central"
    /\ central_ring = EmptyRing
    /\ peripheral_ring.conn # NULL
    /\ conns[peripheral_ring.conn].st = "connected"
    /\ peripheral_ring.rssi_filter.index > 0
    /\ reconnect_work.armed

\* C22: when connected() reports an error for an outgoing connection, which
\* scan_connecting put in the central slot when the attempt began, the central
\* slot is back at its defaults, reconnect_work is pending (due in 2 s when it
\* was not pending before) and the peripheral slot is as it was.
C22_FailedAttemptRolledBack ==
    [][\A conn \in Conns :
          (last'.op = "connected" /\ last'.arg = conn /\ last'.err # 0) =>
             /\ central_ring.conn = conn
             /\ central_ring' = EmptyRing
             /\ peripheral_ring' = peripheral_ring
             /\ reconnect_work'.armed
             /\ ~reconnect_work.armed => reconnect_work'.deadline = now + 2000
             /\ conns'[conn].refs = 0]_vars

\* An outgoing attempt has just failed while the peripheral slot holds an
\* established connection: the central slot is empty again, the peripheral
\* slot still populated, the retry pending.
C22_Witness ==
    /\ last.op = "connected"
    /\ last.err # 0
    /\ conns[last.arg].st = "released"
    /\ central_ring = EmptyRing
    /\ peripheral_ring.conn # NULL
    /\ conns[peripheral_ring.conn].st = "connected"
    /\ reconnect_work.armed

\* C23: rssi_work_handler and the connection callbacks do not interleave on
\* a slot: when the handler has just written the filter, or the rssi and
\* distance, of a slot, that slot still holds the connection the handler
\* found in it - disconnected() has not emptied it in between.
C23_SlotMutationsSerialized ==
    last.op \in {"rssi_add", "rssi_report"} => ring_of(last.role).conn # NULL

\* C24: no link-parameter profile is requested on, and no sample is added to
\* the filter of, a slot whose connection is still being created - a slot in
\* which scan_connecting has set conn and connected() has not yet run.
C24_NothingTouchesSpeculativeSlot ==
    \A conn \in Conns :
        (conns[conn].st = "connecting" /\ central_ring.conn = conn)
            => /\ conn_param[conn] = NoProfile
               /\ central_ring.rssi_filter = rssi_filter_init

\* ------------------------------------------------------------------------
\* Properties of the power manager
\* ------------------------------------------------------------------------

\* C3: while the ultra-low-power latch is set, current_mode is DeepSleep.
C3_LatchPinsDeepSleep ==
    power_mgr.ultra_low_power => power_mgr.current_mode = POWER_MODE_DEEP_SLEEP

\* C4: when on_user_activity() returns (called directly, or as the first
\* statement of on_connection_established), current_mode is Active and
\* last_activity_time is the current time, whatever the mode was before.
C4_ActivityForcesActive ==
    last.op \in {"on_user_activity", "on_connection_established"} =>
        /\ power_mgr.current_mode = POWER_MODE_ACTIVE
        /\ power_mgr.last_activity_time = now

\* on_user_activity() has just brought the mode back from DeepSleep.
C4_Witness ==
    /\ last.op = "on_user_activity"
    /\ last.prev_mode = POWER_MODE_DEEP_SLEEP
    /\ power_mgr.current_mode = POWER_MODE_ACTIVE

\* C5: on_user_activity() called in Active mode changes last_activity_time
\* and nothing else: no mode change, no statistics, no parameter push. A
\* repeated call therefore leaves the state of a single call at the later time.
C5_ActivityWhileActiveOnlyStamps ==
    [][(last'.op = "on_user_activity" /\ power_mgr.current_mode = POWER_MODE_ACTIVE) =>
          /\ power_mgr' = [power_mgr EXCEPT !.last_activity_time = now]
          /\ UNCHANGED <<conn_param, last_battery_update, drain_counter,
                         unified_work, central_ring, peripheral_ring, rssi_run, pair>>]_vars

\* on_user_activity() has run twice in Active mode, the second time later.
C5_Witness ==
    /\ last.op = "on_user_activity"
    /\ last.prev_mode = POWER_MODE_ACTIVE
    /\ calls = 2
    /\ power_mgr.total_active_time = 0
    /\ power_mgr.total_sleep_time = 0
    /\ power_mgr.last_activity_time > 0

\* C6: between two user-activity events the mode only moves toward DeepSleep:
\* no tick and no link-lost event makes it shallower.
C6_OnlyDeeperWithoutActivity ==
    [][last'.op \in {"tick", "on_connection_lost"} =>
          power_mgr'.current_mode >= power_mgr.current_mode]_vars

\* C7: after a tick that found the latch clear and did not set it, the mode is
\* the one the idle time selects, with strict comparisons.
C7_TickSelectsModeByIdle ==
    (last.op = "tick" /\ ~power_mgr.ultra_low_power) =>
        LET idle == now - power_mgr.last_activity_time IN
        power_mgr.current_mode =
            IF idle > 120000 THEN POWER_MODE_DEEP_SLEEP
            ELSE IF idle > 30000 THEN POWER_MODE_SLEEP
            ELSE IF idle > 5000 THEN POWER_MODE_IDLE
            ELSE POWER_MODE_ACTIVE

\* A tick at idle = 6000 ms has selected Idle.
C7_Witness ==
    /\ last.op = "tick"
    /\ ~power_mgr.ultra_low_power
    /\ now - power_mgr.last_activity_time = 6000
    /\ power_mgr.current_mode = POWER_MODE_IDLE

\* C8, as stated: k consecutive battery updates at the Active drain rate
\* lower battery_level by k/2, and the latch is clear while the level is
\* above 15.
C8_ActiveDrainHalved ==
    /\ (active_updates.count > 0 /\ active_updates.count % 2 = 0) =>
           2 * (active_updates.base - power_mgr.battery_level) = active_updates.count
    /\ power_mgr.battery_level > 15 => ~power_mgr.ultra_low_power

\* C8, amended: k consecutive battery updates at the Active drain rate lower
\* battery_level by k, one per update, and the latch is clear while the level
\* is above 15.
C8_ActiveDrainOnePerUpdate ==
    /\ active_updates.count > 0 =>
           active_updates.base - power_mgr.battery_level = active_updates.count
    /\ power_mgr.battery_level > 15 => ~power_mgr.ultra_low_power

\* Two consecutive battery updates were taken at the Active drain rate.
C8_Witness ==
    /\ active_updates.count = 2
    /\ last.op = "tick"
    /\ last.updated

\* C9: battery_level stays within 0..100 and never increases; the decrement
\* applied at 0 yields 0.
C9_BatteryBoundedNonIncreasing ==
    /\ power_mgr.battery_level \in 0..100
    /\ battery_decrement(0) = 0
    /\ [][/\ power_mgr'.battery_level \in 0..100
          /\ power_mgr'.battery_level <= power_mgr.battery_level]_vars

\* A battery update has just lowered the level.
C9_Witness ==
    /\ last.op = "tick"
    /\ last.updated
    /\ power_mgr.battery_level = BATTERY_FULL - 1

\* C10: the latch is set exactly when battery_level <= 15; the step that sets
\* it is a tick and leaves the mode at DeepSleep; once set it stays set.
C10_LatchIffBatteryLow ==
    /\ [](power_mgr.ultra_low_power <=> power_mgr.battery_level <= 15)
    /\ [][(~power_mgr.ultra_low_power /\ power_mgr'.ultra_low_power) =>
             /\ last'.op = "tick"
             /\ last'.updated
             /\ power_mgr'.current_mode = POWER_MODE_DEEP_SLEEP]_vars
    /\ [][power_mgr.ultra_low_power => power_mgr'.ultra_low_power]_vars

\* The tick that brought the level to 15 has set the latch.
C10_Witness ==
    /\ last.op = "tick"
    /\ ~last.prev_latch
    /\ power_mgr.ultra_low_power
    /\ power_mgr.battery_level = 15
    /\ power_mgr.current_mode = POWER_MODE_DEEP_SLEEP

\* C11: the periodic mode-evaluation tick stays armed in every mode: whatever
\* the mode has become, unified_work is pending between handlers.
C11_TickStaysArmed ==
    unified_work.armed

\* ------------------------------------------------------------------------
\* Properties of the proximity filter and the distance classifier
\* ------------------------------------------------------------------------

\* C12: with fewer than 5 samples added since the last reset,
\* rssi_filter_get_average returns the neutral default -70.
C12_DefaultBeforeWrap ==
    Len(samples) < RSSI_HISTORY_SIZE =>
        rssi_filter_get_average(central_ring.rssi_filter) = -70

\* C13: with 5 or more samples added since the last reset,
\* rssi_filter_get_average returns the mean of the 5 most recent samples,
\* truncated toward zero.
C13_MeanOfLastFive ==
    Len(samples) >= 5 =>
        LET n == Len(samples)
            sum == samples[n] + samples[n - 1] + samples[n - 2]
                   + samples[n - 3] + samples[n - 4]
            mean == IF sum >= 0 THEN sum \div 5 ELSE -((-sum) \div 5)
        IN /\ rssi_filter_get_average(central_ring.rssi_filter) = mean
           /\ last.result = mean

\* More than 5 samples are in, the oldest differs from the newest, and the
\* sum of the last 5 is negative and no multiple of 5.
C13_Witness ==
    /\ Len(samples) > 5
    /\ samples[1] # samples[Len(samples)]
    /\ last.op = "rssi_filter_add"
    /\ last.result < 0
    /\ LET n == Len(samples) IN
       (samples[n] + samples[n - 1] + samples[n - 2]
        + samples[n - 3] + samples[n - 4]) % 5 # 0

\* C14: estimate_distance is monotonic over int8: no reading stronger than
\* the one just classified gets a farther level, and no weaker one a closer
\* level.
C14_DistanceMonotonic ==
    last.op = "estimate_distance" =>
        /\ central_ring.distance = last.result
        /\ central_ring.distance \in DISTANCE_VERY_CLOSE..DISTANCE_VERY_FAR
        /\ \A r \in Int8 :
              /\ r > central_ring.current_rssi
                    => estimate_distance(r) <= central_ring.distance
              /\ r < central_ring.current_rssi
                    => estimate_distance(r) >= central_ring.distance

\* The reading one below a threshold has been classified one level farther
\* than the reading at the threshold.
C14_Witness ==
    /\ last.op = "estimate_distance"
    /\ central_ring.current_rssi = -56
    /\ central_ring.distance = DISTANCE_MEDIUM
    /\ estimate_distance(-55) = DISTANCE_CLOSE

\* C25: every step that changes current_mode requests the profile of the new
\* mode on the connection of each slot that has one and on no other
\* connection; and in every state the profile last requested on a slot's
\* connection, when one has been requested, is that of current_mode.
C25_ModeChangePushesProfile ==
    /\ [][power_mgr'.current_mode # power_mgr.current_mode =>
             \A conn \in Conns :
                 conn_param'[conn] =
                     IF conn \in {central_ring.conn, peripheral_ring.conn}
                     THEN ProfileOf(power_mgr'.current_mode)
                     ELSE conn_param[conn]]_vars
    /\ [](\A conn \in {central_ring.conn, peripheral_ring.conn} \ {NULL} :
              conn_param[conn] \in {NoProfile, ProfileOf(power_mgr.current_mode)})

\* A tick has taken the mode from Active to Idle with the central slot
\* occupied and the peripheral slot empty: the Idle profile has been requested
\* on the central connection and nothing on the other connection object.
C25_Witness ==
    /\ last.op = "tick"
    /\ last.prev_mode = POWER_MODE_ACTIVE
    /\ power_mgr.current_mode = POWER_MODE_IDLE
    /\ central_ring.conn = 1
    /\ conns[1].st = "connected"
    /\ peripheral_ring.conn = NULL
    /\ conn_param[1] = [interval_min |-> 40, interval_max |-> 60, latency |-> 1, timeout |-> 600]
    /\ conn_param[2] = NoProfile

\* C26: two devices running the policy on the same clock with their slots
\* empty do not stay for ever with both only scanning or both only
\* advertising: a state in which one of them is advertising while the other
\* is scanning is eventually reached.
C26_PairEventuallyMeets ==
    <>(\E d, e \in Devices : d # e /\ pair[d].advertising /\ pair[e].scanning)

\* Both devices lost their links with the alternation at the same point, ran
\* the policy twice at the same times, and each is now scanning and
\* advertising.
C26_Witness ==
    /\ now = 2500
    /\ \A d \in Devices :
          /\ pair[d].scanning
          /\ pair[d].advertising
          /\ ~pair[d].last_role_was_central
          /\ pair[d].reconnect_work = [armed |-> TRUE, deadline |-> 4000]

\* C27: reconnect_work_handler runs - starting a capability and re-arming
\* itself - only while neither slot holds an established connection.
C27_PolicyStopsOnConnection ==
    last.op = "reconnect_work_handler" =>
        \A ring \in {central_ring, peripheral_ring} :
            ring.conn = NULL \/ conns[ring.conn].st # "connected"

\* The bookkeeping of a step of the power manager: on a change of mode the
\* time since mode_change_time goes to total_active_time when Active is left
\* and to total_sleep_time otherwise, the other accumulator keeps its value and
\* mode_change_time becomes the current time; without a change of mode the
\* three fields keep their values.
ModeChangeAccounting ==
    LET elapsed == now - power_mgr.mode_change_time
        leaving_active == power_mgr.current_mode = POWER_MODE_ACTIVE
    IN
    IF power_mgr'.current_mode # power_mgr.current_mode
    THEN /\ power_mgr'.total_active_time =
               power_mgr.total_active_time + (IF leaving_active THEN elapsed ELSE 0)
         /\ power_mgr'.total_sleep_time =
               power_mgr.total_sleep_time + (IF leaving_active THEN 0 ELSE elapsed)
         /\ power_mgr'.mode_change_time = now
    ELSE /\ power_mgr'.total_active_time = power_mgr.total_active_time
         /\ power_mgr'.total_sleep_time = power_mgr.total_sleep_time
         /\ power_mgr'.mode_change_time = power_mgr.mode_change_time

\* on_connection_lost() in Sleep mode is set_power_mode(current mode).
SameModeCallChangesNothing ==
    (last'.op = "on_connection_lost" /\ power_mgr.current_mode = POWER_MODE_SLEEP)
        => /\ power_mgr' = power_mgr
           /\ conn_param' = conn_param

\* C28: on every mode change the elapsed time since mode_change_time is added
\* to total_active_time if Active is left and to total_sleep_time otherwise,
\* exactly one of the two accumulators changes, and mode_change_time is set to
\* the current time; set_power_mode with the current mode changes nothing.
C28_ExactlyOneAccumulatorChanges ==
    [][/\ ModeChangeAccounting
       /\ SameModeCallChangesNothing
       /\ power_mgr'.current_mode # power_mgr.current_mode =>
             (power_mgr'.total_active_time # power_mgr.total_active_time)
                 # (power_mgr'.total_sleep_time # power_mgr.total_sleep_time)]_vars

\* C28, amended: the same, except that the accumulator of the mode being left
\* grows by the elapsed time, which is zero when the mode changes twice within
\* one millisecond, and the other accumulator never changes.
C28_ElapsedTimeAccounted ==
    [][ModeChangeAccounting /\ SameModeCallChangesNothing]_vars

\* on_user_activity() has just left Idle after a positive time in it, Active
\* having been left after a positive time before: both accumulators have
\* grown, and the mode change is stamped with the current time.
C28_Witness ==
    /\ last.op = "on_user_activity"
    /\ last.prev_mode = POWER_MODE_IDLE
    /\ power_mgr.current_mode = POWER_MODE_ACTIVE
    /\ power_mgr.total_active_time > 0
    /\ power_mgr.total_sleep_time > 0
    /\ power_mgr.mode_change_time = now

\* C29: a processed sample that yields the slot's reported level and a
\* filtered value within 3 of the reported current_rssi leaves current_rssi and
\* distance unchanged while the filter still advances by that sample; any other
\* sample sets both current_rssi and distance, to the new filtered value and
\* its level. The filtered value is recomputed here from the readings fed.
C29_ReportOnlyBeyondHysteresis ==
    [][last'.op = "rssi_filter_add" =>
        LET n == Len(samples')
            count == IF n < RSSI_HISTORY_SIZE THEN n ELSE RSSI_HISTORY_SIZE
            sum == SumHistory([i \in 0..(count - 1) |-> samples'[n - i]], count)
            filtered == IF sum >= 0 THEN sum \div count ELSE -((-sum) \div count)
            level == IF filtered >= -35 THEN DISTANCE_VERY_CLOSE
                     ELSE IF filtered >= -55 THEN DISTANCE_CLOSE
                     ELSE IF filtered >= -70 THEN DISTANCE_MEDIUM
                     ELSE IF filtered >= -85 THEN DISTANCE_FAR
                     ELSE DISTANCE_VERY_FAR
            within_3 == /\ filtered - central_ring.current_rssi <= 3
                        /\ central_ring.current_rssi - filtered <= 3
            old == central_ring.rssi_filter
            new == central_ring'.rssi_filter
        IN /\ new.history[old.index] = last'.arg
           /\ \A i \in DOMAIN old.history :
                 i # old.index => new.history[i] = old.history[i]
           /\ new.index = (old.index + 1) % RSSI_HISTORY_SIZE
           /\ IF level = central_ring.distance /\ within_3
              THEN /\ central_ring'.current_rssi = central_ring.current_rssi
                   /\ central_ring'.distance = central_ring.distance
              ELSE /\ central_ring'.current_rssi = filtered
                   /\ central_ring'.distance = level]_vars

\* A sample has moved the filtered value off the reported one, by no more
\* than 3 and within the same level: the reported current_rssi is held back.
C29_Witness ==
    /\ last.op = "rssi_filter_add"
    /\ last.result # central_ring.current_rssi
    /\ estimate_distance(last.result) = central_ring.distance
    /\ rssi_filter_get_average(central_ring.rssi_filter) = last.result

\* C30: for every int8 reading r, estimate_distance(r) is the reference
\* classification - VeryClose from -35 up, else Close from -55 up, else Medium
\* from -70 up, else Far from -85 up, else VeryFar - and never Unknown; the
\* level kept for the reading just classified is the reference one.
C30_MatchesReferenceLadder ==
    LET reference(r) == IF r >= -35 THEN 1
                        ELSE IF r >= -55 THEN 2
                        ELSE IF r >= -70 THEN 3
                        ELSE IF r >= -85 THEN 4
                        ELSE 5
    IN /\ <<DISTANCE_UNKNOWN, DISTANCE_VERY_CLOSE, DISTANCE_CLOSE,
             DISTANCE_MEDIUM, DISTANCE_FAR, DISTANCE_VERY_FAR>> = <<0, 1, 2, 3, 4, 5>>
       /\ \A r \in Int8 : estimate_distance(r) = reference(r)
       /\ last.op = "estimate_distance" =>
             /\ last.result = reference(last.arg)
             /\ central_ring.distance = reference(central_ring.current_rssi)
             /\ central_ring.distance # DISTANCE_UNKNOWN

\* The weakest reading that is still Medium has been classified Medium.
C30_Witness ==
    /\ last.op = "estimate_distance"
    /\ last.arg = -70
    /\ last.result = DISTANCE_MEDIUM
    /\ central_ring.current_rssi = -70
    /\ central_ring.distance = DISTANCE_MEDIUM

\* C31: after each firing of the periodic handler the next firing is armed
\* with the period of the mode current at the end of that firing's evaluation
\* - 3000 ms in Active, 8000 ms in Idle, 20000 ms in Sleep - whatever the mode
\* was when the timer was armed.
C31_RearmedWithCurrentPeriod ==
    (last.op = "tick" /\ power_mgr.current_mode # POWER_MODE_DEEP_SLEEP) =>
        /\ unified_work.armed
        /\ unified_work.deadline - now =
              IF power_mgr.current_mode = POWER_MODE_ACTIVE THEN 3000
              ELSE IF power_mgr.current_mode = POWER_MODE_IDLE THEN 8000
              ELSE 20000

\* The firing armed 3000 ms ahead in Active mode has moved the mode to Idle
\* and armed the next firing 8000 ms ahead.
C31_Witness ==
    /\ last.op = "tick"
    /\ last.prev_mode = POWER_MODE_ACTIVE
    /\ power_mgr.current_mode = POWER_MODE_IDLE
    /\ unified_work = [armed |-> TRUE, deadline |-> now + 8000]

\* C32: hrs_ready and lbs_ready of the central slot are true only while the
\* slot holds the link the service discovery completed on: they are false
\* while the slot is empty, they do not outlive a change of the slot's link,
\* and a discovery-completed callback changes nothing unless the slot holds an
\* established outgoing link.
C32_ReadyOnlyForDiscoveredLink ==
    /\ [](central_ring.conn = NULL =>
              ~central_ring.hrs_ready /\ ~central_ring.lbs_ready)
    /\ [][central_ring'.conn # central_ring.conn =>
              ~central_ring'.hrs_ready /\ ~central_ring'.lbs_ready]_vars
    /\ [][(/\ last'.op \in {"discovery_completed_cb", "discovery_completed_lbs_cb"}
            /\ last' # last
            /\ ~(central_ring.conn # NULL /\ discovering(central_ring.conn)))
              => central_ring' = central_ring]_vars

\* C33: a slot's proximity filter holds only samples of the link that
\* occupies the slot: the filter of an empty slot is empty, and after every
\* step that changes the slot's link - from empty to occupied, from occupied
\* to empty, or from one link to another - the filter is empty.
C33_FilterBelongsToCurrentLink ==
    /\ [](\A ring \in {central_ring, peripheral_ring} :
              ring.conn = NULL => ring.rssi_filter = rssi_filter_init)
    /\ [][/\ central_ring'.conn # central_ring.conn
               => central_ring'.rssi_filter = rssi_filter_init
          /\ peripheral_ring'.conn # peripheral_ring.conn
               => peripheral_ring'.rssi_filter = rssi_filter_init]_vars

\* C34: when the push of link parameters to a slot's link fails, the failure
\* is dropped: the mode change still completes with its bookkeeping, no slot
\* is modified, no work item is scheduled for a retry, and the link of the
\* other occupied slot still gets its push.
C34_PushFailureDropped ==
    [][(/\ power_mgr'.current_mode # power_mgr.current_mode
        /\ push_fails(central_ring.conn) \/ push_fails(peripheral_ring.conn))
         => /\ ModeChangeAccounting
            /\ central_ring' = central_ring
            /\ peripheral_ring' = peripheral_ring
            /\ reconnect_work' = reconnect_work
            /\ rssi_work' = rssi_work
            /\ adv_work' = adv_work
            /\ IF last'.op = "tick"
               THEN unified_work' \in
                      {NotScheduled,
                       [armed |-> TRUE,
                        deadline |-> now + get_rssi_update_interval(power_mgr'.current_mode)]}
               ELSE unified_work' = unified_work
            /\ \A ring \in {central_ring, peripheral_ring} :
                  (ring.conn # NULL /\ ~push_fails(ring.conn))
                      => conn_param'[ring.conn] = ProfileOf(power_mgr'.current_mode)]_vars

\* on_connection_lost() has changed the mode to Sleep while the central slot
\* held a connection still being created, on which the update fails, and the
\* peripheral slot an established link: the Sleep profile has been requested
\* on the peripheral link.
C34_Witness ==
    /\ last.op = "on_connection_lost"
    /\ last.prev_mode = POWER_MODE_ACTIVE
    /\ power_mgr.current_mode = POWER_MODE_SLEEP
    /\ power_mgr.mode_change_time = now
    /\ push_fails(central_ring.conn)
    /\ peripheral_ring.conn # NULL
    /\ ~push_fails(peripheral_ring.conn)
    /\ conn_param[peripheral_ring.conn] = ProfileOf(POWER_MODE_SLEEP)

\* C35: a battery update taken in Sleep or DeepSleep mode does not decrement
\* battery_level; an update taken in Idle mode decrements it exactly when the
\* previous update left the drain counter at 1, that is on every second of
\* consecutive Idle updates; the drain counter is reset to 0 by every
\* decrement, otherwise grows by the rate of the mode, and is carried
\* unchanged through every step that is not a battery update.
C35_DrainByMode ==
    /\ [](drain_counter \in {0, 1})
    /\ [][LET tick == last'.op = "tick" /\ last.op # "tick"
              update == tick /\ now - last_battery_update > 60000
              mode == power_mgr.current_mode
              level == power_mgr.battery_level
          IN IF ~update
             THEN /\ drain_counter' = drain_counter
                  /\ power_mgr'.battery_level = level
             ELSE /\ mode \in {POWER_MODE_SLEEP, POWER_MODE_DEEP_SLEEP} =>
                        /\ power_mgr'.battery_level = level
                        /\ drain_counter' = drain_counter
                  /\ mode = POWER_MODE_IDLE =>
                        IF drain_counter = 1
                        THEN power_mgr'.battery_level = level - 1 /\ drain_counter' = 0
                        ELSE power_mgr'.battery_level = level /\ drain_counter' = 1
                  /\ power_mgr'.battery_level # level => drain_counter' = 0]_vars

\* Two battery updates were taken in Idle mode with the mode changing in
\* between: the first left the drain counter at 1, the second has decremented
\* the level and reset the counter.
C35_Witness ==
    /\ last.op = "tick"
    /\ last.updated
    /\ last.rate = 1
    /\ last.prev_mode = POWER_MODE_IDLE
    /\ drain_counter = 0
    /\ last_battery_update = now
    /\ power_mgr.battery_level = BATTERY_FULL - 1

\* floor(n * part / total) with its remainder, for part <= total < 2^30, by
\* doubling: n * part = q * total + r.
RECURSIVE ExactShare(_, _, _)
ExactShare(part, total, n) ==
    IF n = 0 THEN <<0, 0>>
    ELSE LET prev == ExactShare(part, total, IF n % 2 = 0 THEN n \div 2 ELSE n - 1)
             r == IF n % 2 = 0 THEN 2 * prev[2] ELSE prev[2] + part
             q == IF n % 2 = 0 THEN 2 * prev[1] ELSE prev[1]
         IN <<q + r \div total, r % total>>

\* C36: print_power_statistics reports active_percent = floor(100 *
\* total_active_time / (total_active_time + total_sleep_time)) and
\* sleep_percent = 100 - active_percent, both within 0..100, for every value
\* of the accumulators, and reports nothing when the total is 0.
C36_PercentagesExact ==
    last.op = "print_power_statistics" =>
        LET active == power_mgr.total_active_time
            total == active + power_mgr.total_sleep_time
        IN IF total = 0 THEN ~last.updated
           ELSE /\ last.updated
                /\ last.result[1] = ExactShare(active, total, 100)[1]
                /\ last.result[2] = 100 - last.result[1]
                /\ last.result[1] \in 0..100
                /\ last.result[2] \in 0..100

\* C37: in every state after init_nrf54l15_power_optimization (at uptime 0)
\* total_active_time + total_sleep_time + (now - mode_change_time) is the time
\* elapsed since init: no interval is counted twice or dropped, whatever the
\* sequence of mode changes.
C37_TimeFullyAccounted ==
    power_mgr.total_active_time + power_mgr.total_sleep_time
        + (now - power_mgr.mode_change_time) = now

\* Time has passed since the last of several mode changes, and both
\* accumulators have received intervals.
C37_Witness ==
    /\ last.op = "time"
    /\ power_mgr.total_active_time > 0
    /\ power_mgr.total_sleep_time > power_mgr.total_active_time
    /\ power_mgr.current_mode = POWER_MODE_ACTIVE
    /\ now > power_mgr.mode_change_time

\* C38: the references the application takes on a connection are balanced by
\* its releases: it holds exactly one reference on a connection while a slot
\* holds that connection, and none on a connection no slot holds.
C38_ReferencesBalanced ==
    \A conn \in Conns :
        conns[conn].refs =
            IF conn \in {central_ring.conn, peripheral_ring.conn} THEN 1 ELSE 0

\* C39: for a slot holding an established link, distance equals
\* estimate_distance(current_rssi), and right after the work handler has
\* processed a sample for the slot its distance is the classification of the
\* current average of the slot's filter.
C39_DistanceMatchesRssi ==
    \A ring \in {central_ring, peripheral_ring} :
        (ring.conn # NULL /\ conns[ring.conn].st = "connected") =>
            /\ ring.distance = estimate_distance(ring.current_rssi)
            /\ last.op \in {"rssi_work_handler", "rssi_filter_add"} =>
                   ring.distance =
                       estimate_distance(rssi_filter_get_average(ring.rssi_filter))

\* C39 witness: a sample of the established central link has been processed, the
\* reported level has left the placeholder's level, and the filter's average has
\* since moved within the hysteresis without being reported.
C39_Witness ==
    /\ last.op = "rssi_filter_add"
    /\ central_ring.conn # NULL
    /\ conns[central_ring.conn].st = "connected"
    /\ central_ring.distance # estimate_distance(-50)
    /\ central_ring.current_rssi # rssi_filter_get_average(central_ring.rssi_filter)

\* C40: the LED manager is thread-safe. Once led_set_state_locked(OFF) or
\* led_set_state_locked(ON) has returned and no other call is under way, the LED
\* shows the state that was set and flash_work is not armed, whatever the flash
\* handler was doing during the call; and the step that ends a flash sequence
\* comes after exactly LED_FLASH_COUNT toggles and leaves the LED at
\* user_controlled.
C40_LedManagerThreadSafe ==
    /\ ((\A c \in Callers : led_run.caller[c].pc = "idle")
           /\ led_manager.state \in {LED_STATE_OFF, LED_STATE_ON}) =>
          /\ user_led = (led_manager.state = LED_STATE_ON)
          /\ ~led_manager.flash_work
    /\ (last.op = "led_flash_work_handler" /\ ~last.updated) =>
          /\ led_run.toggles = LED_FLASH_COUNT
          /\ user_led = led_manager.user_controlled


====
